---- MODULE Spec2Model ----
(***************************************************************************)
(* A model of the math pipeline of docx2md: the math/text span tokenizer   *)
(* (utils/math_utils.py) and the extract / splice phases of MathExtractor  *)
(* (processors/math_extraction.py).                                        *)
(*                                                                         *)
(* Text is a sequence of one-character strings.  Positions are Python's:   *)
(* 0-based, an end is exclusive; At(s, i) is s[i].                         *)
(***************************************************************************)
EXTENDS Integers, Sequences, FiniteSets, TLC

VARIABLES
    \* tokenize_math_spans
    content,      \* the argument
    tokens,       \* the list being built
    last_end,     \* end of the last match
    tpc,          \* "idle" | "scan" | "done"
    \* _extract_math_from_docx
    tree,         \* the elements of word/document.xml: element -> [tag, kids, text]
    parent_map,   \* child -> parent, 0 for none
    equations,    \* the registry
    idx,          \* the next index
    todo,         \* what is left of the list the running loop iterates
    sanitized,    \* the body XML written back
    body0,        \* the tree as parsed
    src_nodes,    \* for each record, the element it was made from
    epc,          \* "idle" | "parse" | "display" | "inline" | "done"
    \* _splice
    markdown,     \* the text being rewritten
    eq_latex,     \* index -> cleaned LaTeX
    s_equations,  \* the registry handed to _splice
    s_k,          \* records the loop has gone through
    pieces,       \* how the argument text was put together
    spc,          \* "idle" | "loop" | "done"
    config,       \* self.config of the MathExtractor
    \* convert_docx_to_markdown, extract_and_convert
    container,    \* what the input file is: "ok" | "corrupt" | "no_main_part" | "main_elsewhere"
    n_equations,  \* how many equations the document holds
    math_extraction_enabled,
    ppc,          \* where the call stands
    log,          \* the steps taken and the converter invocations made, in order
    workspace,    \* what exists of the temporary directory of extract_and_convert
    tmp_md,       \* the temporary Markdown file: "none" | "exists" | "deleted"
    out_file,     \* the output path: "absent" | "old" | "partial" | "complete"
    out_file0,    \* the output path before the call
    origin,       \* where markdown_content came from: "none" | "math" | "fallback" | "direct"
    processing,   \* config["processing"]: the flags of the steps
    \* _parse_batch_output
    raw_md,       \* the argument: the converter's output for the batch document
    result,       \* the dict being built: index -> LaTeX
    p_i,          \* the index i into the lines
    bpc,          \* "idle" | "scan" | "done"
    \* unzip_docx, rezip_docx
    zip_in,       \* the container: its members in archive order
    dest_files,   \* the files of the directory: path -> bytes
    dest_dirs,    \* the directories of the directory
    z_k,          \* members extractall has gone through
    pending,      \* the paths rezip_docx has still to go through
    zip_out,      \* the members written to the output path, in order
    zip_at,       \* the output path: "absent" | "old" | "partial" | "complete"
    zip_at0,      \* the output path before the call
    zpc,          \* "idle" | "unzip" | "open" | "write" | "done" | "raised"
    \* the text sanitizers (_fix_equation, process, _clean_latex,
    \* _strip_triple_dollar, final_sanitize, fix_delimiters) called in a row
    f_arg,        \* the argument of the first call
    f_outs,       \* what each call so far returned, each fed to the next
    \* batch_convert
    b_docs,       \* docx_files: the documents found, as [dir, name]
    b_parallel,   \* the parallel argument
    b_pos,        \* per document, where its conversion stands
    b_idx,        \* per document, the equation indices its extraction handed out
    fs_writes,    \* the filesystem locations written, each with the document writing it
    b_results,    \* results
    failed_count,
    b_ret,        \* what batch_convert returned
    bcpc          \* "idle" | "start" | "run" | "done"

tokVars == <<content, tokens, last_end, tpc>>
extVars == <<tree, parent_map, equations, idx, todo, sanitized, body0, src_nodes, epc>>
splVars == <<markdown, eq_latex, s_equations, s_k, pieces, spc, config>>
pipVars == <<container, n_equations, math_extraction_enabled, ppc, log, workspace,
             tmp_md, out_file, out_file0, origin, processing>>
parVars == <<raw_md, result, p_i, bpc>>
zipVars == <<zip_in, dest_files, dest_dirs, z_k, pending, zip_out, zip_at, zip_at0, zpc>>
funVars == <<f_arg, f_outs>>
batVars == <<b_docs, b_parallel, b_pos, b_idx, fs_writes, b_results, failed_count, b_ret, bcpc>>
vars == <<tokVars, extVars, splVars, pipVars, parVars, zipVars, funVars, batVars>>

-----------------------------------------------------------------------------
(* Bounds *)

\* longest buffer given to the tokenizer
MaxLen == 7

\* most elements below the root of a document body
MaxNodes == 4

\* most records of a registry handed to _splice
MaxEqs == 2

\* most pieces, literal text or placeholder, a markdown text is made of
MaxPieces == 3

\* the same two where the LaTeX is long
MaxWideEqs == 1

MaxWidePieces == 2

-----------------------------------------------------------------------------
(* Text helpers *)

At(s, i) == s[i + 1]

\* s[a:b]
Slice(s, a, b) == SubSeq(s, a + 1, b)

MinOf(S) == CHOOSE x \in S : \A y \in S : x <= y

TextsUpTo(chars, n) == UNION {[1..k -> chars] : k \in 0..n}

-----------------------------------------------------------------------------
(* The parts of the state a specification does not use *)

TokIdle ==
    /\ content = <<>> /\ tokens = <<>> /\ last_end = 0 /\ tpc = "idle"

ExtIdle ==
    /\ tree = <<>> /\ parent_map = <<>> /\ equations = <<>> /\ idx = 0
    /\ todo = <<>> /\ sanitized = <<>> /\ body0 = <<>> /\ src_nodes = <<>>
    /\ epc = "idle"

\* MathExtractor({}): nothing configured
NoConfig == [supplied |-> FALSE, threshold |-> 0]

\* a configuration that names a wide-equation threshold
ConfigWith(T) == [supplied |-> TRUE, threshold |-> T]

SplIdle ==
    /\ markdown = <<>> /\ eq_latex = <<>> /\ s_equations = <<>> /\ s_k = 0
    /\ pieces = <<>> /\ spc = "idle" /\ config = NoConfig

\* the flags of config["processing"] that the steps 3 to 10 read, each True
\* when the configuration does not name it
StepFlags == {"cleanup", "fix_unicode", "fix_equations", "fix_delimiters"}

DefaultProcessing == [f \in StepFlags |-> TRUE]

PipIdle ==
    /\ container = "ok" /\ n_equations = 0 /\ math_extraction_enabled = TRUE
    /\ ppc = "idle" /\ log = <<>> /\ workspace = {} /\ tmp_md = "none"
    /\ out_file = "absent" /\ out_file0 = "absent" /\ origin = "none"
    /\ processing = DefaultProcessing

\* the empty dict
EmptyDict == [k \in {} |-> <<>>]

ParIdle ==
    /\ raw_md = <<>> /\ result = EmptyDict /\ p_i = 0 /\ bpc = "idle"

FunIdle ==
    /\ f_arg = <<>> /\ f_outs = <<>>

BatIdle ==
    /\ b_docs = <<>> /\ b_parallel = FALSE /\ b_pos = <<>> /\ b_idx = <<>>
    /\ fs_writes = {} /\ b_results = <<>> /\ failed_count = 0
    /\ b_ret = "none" /\ bcpc = "idle"

ZipIdle ==
    /\ zip_in = <<>> /\ dest_files = EmptyDict /\ dest_dirs = {} /\ z_k = 0
    /\ pending = <<>> /\ zip_out = <<>> /\ zip_at = "absent" /\ zip_at0 = "absent"
    /\ zpc = "idle"

-----------------------------------------------------------------------------
(* utils/math_utils.py *)

\* The first alternative of _MATH_PATTERN, \$\$[\s\S]*?\$\$, tried at i:
\* the end of the match, or -1.
MatchDisplay(s, i) ==
    LET closers == {j \in (i + 2)..(Len(s) - 2) : At(s, j) = "$" /\ At(s, j + 1) = "$"}
    IN  IF i + 1 < Len(s) /\ At(s, i) = "$" /\ At(s, i + 1) = "$" /\ closers # {}
        THEN MinOf(closers) + 2
        ELSE -1

\* The second alternative, \$(?!\$).*?(?<!\$)\$ under DOTALL, tried at i.
MatchInline(s, i) ==
    LET closers == {j \in (i + 1)..(Len(s) - 1) : At(s, j) = "$" /\ At(s, j - 1) # "$"}
    IN  IF /\ i < Len(s) /\ At(s, i) = "$"
           /\ (i + 1 < Len(s) => At(s, i + 1) # "$")
           /\ closers # {}
        THEN MinOf(closers) + 1
        ELSE -1

\* A mutant of MatchAt: the display alternative is missing.
MatchAtInlineOnly(s, i) == MatchInline(s, i)

\* _MATH_PATTERN tried at i: the alternatives in their order.
MatchAt(s, i) ==
    IF MatchDisplay(s, i) # -1 THEN MatchDisplay(s, i) ELSE MatchInline(s, i)

\* The starts >= from at which the pattern matches; finditer takes the least.
MatchStarts(s, from) == {i \in from..(Len(s) - 1) : MatchAt(s, i) # -1}

Tok(kind, text) == [kind |-> kind, text |-> text]

\* A mutant of TextBefore: the text before a match is dropped.
TextBeforeDropped(s, le, start) == <<>>

\* tokenize_math_spans, lines 37-38: the text between the last match and this one.
TextBefore(s, le, start) ==
    IF start > le THEN <<Tok("text", Slice(s, le, start))>> ELSE <<>>

\* lines 42-43: the text after the last match.
TrailingText(s, le) ==
    IF le < Len(s) THEN <<Tok("text", Slice(s, le, Len(s)))>> ELSE <<>>

RECURSIVE reassemble(_)
reassemble(toks) ==
    IF toks = <<>> THEN <<>> ELSE Head(toks).text \o reassemble(Tail(toks))

\* One iteration of the loop over finditer (lines 36-40).
TokMatch ==
    /\ tpc = "scan"
    /\ MatchStarts(content, last_end) # {}
    /\ LET start == MinOf(MatchStarts(content, last_end))
           end   == MatchAt(content, start)
       IN  /\ tokens' = tokens \o TextBefore(content, last_end, start)
                               \o <<Tok("math", Slice(content, start, end))>>
           /\ last_end' = end
    /\ UNCHANGED <<content, tpc, extVars, splVars, pipVars, parVars, zipVars, funVars, batVars>>

\* finditer is exhausted: lines 42-45.
TokFinish ==
    /\ tpc = "scan"
    /\ MatchStarts(content, last_end) = {}
    /\ tokens' = tokens \o TrailingText(content, last_end)
    /\ tpc' = "done"
    /\ UNCHANGED <<content, last_end, extVars, splVars, pipVars, parVars, zipVars, funVars, batVars>>

TokChars == {"$", "a", "\n"}

InitTokenize ==
    /\ content \in TextsUpTo(TokChars, MaxLen)
    /\ tokens = <<>>
    /\ last_end = 0
    /\ tpc = "scan"
    /\ ExtIdle
    /\ SplIdle
    /\ PipIdle
    /\ ParIdle
    /\ ZipIdle /\ BatIdle
    /\ FunIdle

NextTokenize == TokMatch \/ TokFinish

SpecTokenize == InitTokenize /\ [][NextTokenize]_vars

-----------------------------------------------------------------------------
(* Properties of the tokenizer *)

\* Python start of token k: the lengths of the tokens before it.
RECURSIVE TokStart(_, _)
TokStart(toks, k) ==
    IF k = 1 THEN 0 ELSE TokStart(toks, k - 1) + Len(toks[k - 1].text)

\* The kind of the token that holds position i of the buffer.
KindAt(toks, i) ==
    LET k == CHOOSE k \in 1..Len(toks) :
                 TokStart(toks, k) <= i /\ i < TokStart(toks, k) + Len(toks[k].text)
    IN  toks[k].kind

HasDollar(s) == \E k \in 1..Len(s) : s[k] = "$"

\* C1: at every point of the scan the tokens emitted so far concatenate to the
\* prefix of the buffer consumed so far, and when tokenize_math_spans returns,
\* reassemble(tokens) is the whole buffer: no gap, no overlap, no reordering.
C1_RoundTrip ==
    /\ tpc = "scan" => reassemble(tokens) = Slice(content, 0, last_end)
    /\ tpc = "done" => reassemble(tokens) = content

\* a buffer with a math span, text before it and a stray $ after it, tokenized
C1_Witness ==
    /\ tpc = "done"
    /\ Len(tokens) = 3
    /\ tokens[1].kind = "text" /\ tokens[2].kind = "math"
    /\ tokens[3].kind = "text" /\ HasDollar(tokens[3].text)

\* $$ + body + $$ with no $ in the body
IsDisplayWrapped(s) ==
    /\ Len(s) >= 4
    /\ At(s, 0) = "$" /\ At(s, 1) = "$"
    /\ At(s, Len(s) - 2) = "$" /\ At(s, Len(s) - 1) = "$"
    /\ ~HasDollar(Slice(s, 2, Len(s) - 2))

\* C2: a buffer $$ + body + $$ whose body holds no $ becomes exactly one math
\* token, the whole buffer; and wherever a math token starts at a position at
\* which the display alternative matches, the token is that display span.
C2_DisplayPrecedence ==
    tpc = "done" =>
        /\ IsDisplayWrapped(content) => tokens = <<Tok("math", content)>>
        /\ \A k \in 1..Len(tokens) :
              (tokens[k].kind = "math" /\ MatchDisplay(content, TokStart(tokens, k)) # -1)
                  => tokens[k].text =
                       Slice(content, TokStart(tokens, k),
                             MatchDisplay(content, TokStart(tokens, k)))

\* $$a$$ (or another non-empty body) tokenized
C2_Witness ==
    /\ tpc = "done"
    /\ IsDisplayWrapped(content)
    /\ Len(content) >= 5
    /\ Len(tokens) = 1

\* A display opener that nothing closes: $$ at i, no $ before it, no $$ after it.
UnclosedDisplayOpener(s, i) ==
    /\ i + 1 < Len(s)
    /\ At(s, i) = "$" /\ At(s, i + 1) = "$"
    /\ \A j \in 0..(i - 1) : At(s, j) # "$"
    /\ \A j \in (i + 2)..(Len(s) - 2) : ~(At(s, j) = "$" /\ At(s, j + 1) = "$")

\* An inline opener that nothing closes: the only $ of the buffer.
UnclosedInlineOpener(s, i) ==
    /\ i < Len(s)
    /\ At(s, i) = "$"
    /\ \A j \in 0..(Len(s) - 1) : j # i => At(s, j) # "$"

\* C3: every character of a delimiter that has no closing delimiter before the
\* end of the buffer lies in a text token.
C3_UnmatchedIsText ==
    tpc = "done" =>
        \A i \in 0..(Len(content) - 1) :
            /\ UnclosedInlineOpener(content, i) => KindAt(tokens, i) = "text"
            /\ UnclosedDisplayOpener(content, i) =>
                   KindAt(tokens, i) = "text" /\ KindAt(tokens, i + 1) = "text"

-----------------------------------------------------------------------------
(* processors/math_extraction.py, phase 1: _extract_math_from_docx *)

\* tree.getroot(): the elements are numbered in document order as parsed, the
\* runs create_text_run makes after them.
Root == 1

Elem(tg, ks, tx) == [tag |-> tg, kids |-> ks, text |-> tx]

\* the minimum field width of the format spec 04d
IdxWidth == 4

DigitChar(d) == <<"0", "1", "2", "3", "4", "5", "6", "7", "8", "9">>[d + 1]

RECURSIVE Digits(_)
Digits(n) ==
    IF n < 10 THEN <<DigitChar(n)>> ELSE Digits(n \div 10) \o <<DigitChar(n % 10)>>

\* format(n, "04d"): zero-padded to IdxWidth digits, longer when n needs more
Fmt04d(n) ==
    LET ds == Digits(n)
    IN  IF Len(ds) >= IdxWidth THEN ds
        ELSE [i \in 1..(IdxWidth - Len(ds)) |-> "0"] \o ds

KindUpper(kind) ==
    IF kind = "display"
    THEN <<"D", "I", "S", "P", "L", "A", "Y">>
    ELSE <<"I", "N", "L", "I", "N", "E">>

\* A mutant of Placeholder: the index is not written into it.
PlaceholderNoIndex(kind, i) ==
    <<"@", "@", "M", "A", "T", "H", "_">> \o KindUpper(kind) \o <<"_">>
        \o Fmt04d(0) \o <<"@", "@">>

\* f"@@MATH_DISPLAY_{idx:04d}@@" (line 145), f"@@MATH_INLINE_{idx:04d}@@" (line 179)
Placeholder(kind, i) ==
    <<"@", "@", "M", "A", "T", "H", "_">> \o KindUpper(kind) \o <<"_">>
        \o Fmt04d(i) \o <<"@", "@">>

\* Element.iter(tag): the element and its descendants with that tag, in document order
RECURSIVE Iter(_, _, _)
RECURSIVE IterKids(_, _, _)
Iter(t, n, tg) ==
    (IF t[n].tag = tg THEN <<n>> ELSE <<>>) \o IterKids(t, t[n].kids, tg)

IterKids(t, ks, tg) ==
    IF ks = <<>> THEN <<>> ELSE Iter(t, Head(ks), tg) \o IterKids(t, Tail(ks), tg)

Reverse(q) == [i \in 1..Len(q) |-> q[Len(q) + 1 - i]]

\* A mutant of MathParas: the display equations are taken last to first.
MathParasReversed(t) == Reverse(Iter(t, Root, "oMathPara"))

\* list(root.iter(f"{_NS_M}oMathPara")), line 144
MathParas(t) == Iter(t, Root, "oMathPara")

\* list(root.iter(f"{_NS_M}oMath")), line 167
MathEls(t) == Iter(t, Root, "oMath")

\* ET.tostring / tree.write: start tag (with a run's text), children, end tag
RECURSIVE Serialize(_, _)
RECURSIVE SerializeKids(_, _)
Serialize(t, n) ==
    <<[ev |-> "start", tag |-> t[n].tag, text |-> t[n].text]>>
        \o SerializeKids(t, t[n].kids)
        \o <<[ev |-> "end", tag |-> t[n].tag, text |-> <<>>]>>

SerializeKids(t, ks) ==
    IF ks = <<>> THEN <<>> ELSE Serialize(t, Head(ks)) \o SerializeKids(t, Tail(ks))

\* lines 135-138: the parent of every element of the parsed tree, None (0) for the root
BuildParentMap(t) ==
    [c \in 1..Len(t) |->
        IF \E q \in 1..Len(t) : \E k \in 1..Len(t[q].kids) : t[q].kids[k] = c
        THEN CHOOSE q \in 1..Len(t) : \E k \in 1..Len(t[q].kids) : t[q].kids[k] = c
        ELSE 0]

\* parent_map.get(el)
Get(pm, el) == IF el \in DOMAIN pm THEN pm[el] ELSE 0

\* list(parent).index(el)
IndexOf(ks, el) == MinOf({k \in 1..Len(ks) : ks[k] = el})

\* lines 169-175: the walk up the parent map, from the parent a of the element
RECURSIVE InsidePara(_, _, _)
InsidePara(t, pm, a) ==
    IF a = 0 THEN FALSE
    ELSE IF t[a].tag = "oMathPara" THEN TRUE
    ELSE InsidePara(t, pm, Get(pm, a))

\* create_text_run(placeholder, _NS_W): <w:r><w:t xml:space="preserve">text</w:t></w:r>
create_text_run(tx) == Elem("r", <<>>, tx)

\* lines 155-162 and 189-195: the run takes the element's place in its parent
TreeAfterReplace(t, pm, el, ph) ==
    LET parent == Get(pm, el)
    IN  IF parent = 0 THEN t
        ELSE LET pos == IndexOf(t[parent].kids, el)
             IN  Append([t EXCEPT ![parent].kids[pos] = Len(t) + 1],
                        create_text_run(ph))

MapAfterReplace(t, pm, el) ==
    IF Get(pm, el) = 0 THEN pm ELSE Append(pm, Get(pm, el))

EqRecord(i, kind, xml, ph) ==
    [idx |-> i, kind |-> kind, xml |-> xml, placeholder |-> ph]

\* lines 125-144: parse, build the parent map, list the display equations
ExtractBegin ==
    /\ epc = "parse"
    /\ parent_map' = BuildParentMap(tree)
    /\ equations' = <<>>
    /\ idx' = 0
    /\ todo' = MathParas(tree)
    /\ epc' = "display"
    /\ UNCHANGED <<tree, sanitized, body0, src_nodes, tokVars, splVars, pipVars, parVars, zipVars, funVars, batVars>>

\* lines 144-164: one iteration of the loop over the display equations
ExtractDisplay ==
    /\ epc = "display"
    /\ todo # <<>>
    /\ LET math_para   == Head(todo)
           placeholder == Placeholder("display", idx)
           xml_bytes   == Serialize(tree, math_para)
       IN  /\ equations' = Append(equations,
                                  EqRecord(idx, "display", xml_bytes, placeholder))
           /\ src_nodes' = Append(src_nodes, math_para)
           /\ tree' = TreeAfterReplace(tree, parent_map, math_para, placeholder)
           /\ parent_map' = MapAfterReplace(tree, parent_map, math_para)
    /\ idx' = idx + 1
    /\ todo' = Tail(todo)
    /\ UNCHANGED <<sanitized, body0, epc, tokVars, splVars, pipVars, parVars, zipVars, funVars, batVars>>

\* line 167: the display loop is over, list the oMath elements of the tree as it is now
ExtractBeginInline ==
    /\ epc = "display"
    /\ todo = <<>>
    /\ todo' = MathEls(tree)
    /\ epc' = "inline"
    /\ UNCHANGED <<tree, parent_map, equations, idx, sanitized, body0, src_nodes, tokVars, splVars, pipVars, parVars, zipVars, funVars, batVars>>

\* lines 167-197: one iteration of the loop over the oMath elements
ExtractInline ==
    /\ epc = "inline"
    /\ todo # <<>>
    /\ LET math_el     == Head(todo)
           placeholder == Placeholder("inline", idx)
           xml_bytes   == Serialize(tree, math_el)
       IN  IF InsidePara(tree, parent_map, Get(parent_map, math_el))
           THEN UNCHANGED <<equations, src_nodes, tree, parent_map, idx>>
           ELSE /\ equations' = Append(equations,
                                       EqRecord(idx, "inline", xml_bytes, placeholder))
                /\ src_nodes' = Append(src_nodes, math_el)
                /\ tree' = TreeAfterReplace(tree, parent_map, math_el, placeholder)
                /\ parent_map' = MapAfterReplace(tree, parent_map, math_el)
                /\ idx' = idx + 1
    /\ todo' = Tail(todo)
    /\ UNCHANGED <<sanitized, body0, epc, tokVars, splVars, pipVars, parVars, zipVars, funVars, batVars>>

\* lines 199-206: write the body back and return
ExtractWrite ==
    /\ epc = "inline"
    /\ todo = <<>>
    /\ sanitized' = Serialize(tree, Root)
    /\ epc' = "done"
    /\ UNCHANGED <<tree, parent_map, equations, idx, todo, body0, src_nodes, tokVars, splVars, pipVars, parVars, zipVars, funVars, batVars>>

\* The bodies given to the extractor.  An element is the body (the root), a
\* container p (w:p, w:hyperlink, w:ins, ...), a text run r, an oMathPara or an
\* oMath.  What may hold what follows WordprocessingML: a run has no element
\* children, the body holds no bare run, an oMathPara holds oMath elements, and
\* an oMath holds run-level content, which includes containers and math.
Tags == {"p", "r", "oMathPara", "oMath"}

MayHold(ptag, ctag) ==
    CASE ptag = "body"      -> ctag # "r"
      [] ptag = "p"         -> TRUE
      [] ptag = "oMathPara" -> ctag = "oMath"
      [] ptag = "oMath"     -> TRUE
      [] OTHER              -> FALSE

RECURSIVE OnRightPath(_, _, _)
OnRightPath(par, a, n) ==
    a = n \/ (n > 1 /\ OnRightPath(par, a, par[n]))

\* the parent of each of the elements 2..k+1, numbered in document order
Shapes(k) ==
    {par \in [2..(k + 1) -> 1..k] :
        \A i \in 2..(k + 1) :
            par[i] < i /\ (i > 2 => OnRightPath(par, par[i], i - 1))}

RECURSIVE Ascending(_)
Ascending(S) ==
    IF S = {} THEN <<>> ELSE <<MinOf(S)>> \o Ascending(S \ {MinOf(S)})

MkTree(k, par, tg) ==
    [n \in 1..(k + 1) |->
        Elem(IF n = 1 THEN "body" ELSE tg[n],
             Ascending({c \in 2..(k + 1) : par[c] = n}),
             IF n > 1 /\ tg[n] = "r" THEN <<"t">> ELSE <<>>)]

BodiesOf(k) ==
    {MkTree(k, par, tg) : <<par, tg>> \in
        {pt \in Shapes(k) \X [2..(k + 1) -> Tags] :
            \A i \in 2..(k + 1) :
                MayHold(IF pt[1][i] = 1 THEN "body" ELSE pt[2][pt[1][i]], pt[2][i])}}

Bodies == UNION {BodiesOf(k) : k \in 0..MaxNodes}

InitExtract ==
    /\ tree \in Bodies
    /\ body0 = tree
    /\ parent_map = <<>> /\ equations = <<>> /\ idx = 0
    /\ todo = <<>> /\ sanitized = <<>> /\ src_nodes = <<>>
    /\ epc = "parse"
    /\ TokIdle
    /\ SplIdle
    /\ PipIdle
    /\ ParIdle
    /\ ZipIdle /\ BatIdle
    /\ FunIdle

NextExtract ==
    \/ ExtractBegin
    \/ ExtractDisplay
    \/ ExtractBeginInline
    \/ ExtractInline
    \/ ExtractWrite

SpecExtract == InitExtract /\ [][NextExtract]_vars

-----------------------------------------------------------------------------
(* Properties of the extraction *)

IsMath(tg) == tg \in {"oMathPara", "oMath"}

\* The parsed tree numbers its elements in document order; the parent of n in it.
Parent0(n) ==
    CHOOSE q \in 1..Len(body0) : \E k \in 1..Len(body0[q].kids) : body0[q].kids[k] = n

RECURSIVE Ancestors0(_)
Ancestors0(n) ==
    IF n = Root THEN {} ELSE {Parent0(n)} \cup Ancestors0(Parent0(n))

\* the display equations of the parsed document, in document order
Displays0 == Ascending({n \in 1..Len(body0) : body0[n].tag = "oMathPara"})

\* its oMath elements with no oMathPara ancestor, in document order
Inlines0 ==
    Ascending({n \in 1..Len(body0) :
        /\ body0[n].tag = "oMath"
        /\ \A a \in Ancestors0(n) : body0[a].tag # "oMathPara"})

IsPrefix(a, b) == Len(a) <= Len(b) /\ a = SubSeq(b, 1, Len(a))

\* C4: the registry holds the display equations (oMathPara) in document order,
\* then the oMath elements that have no oMathPara ancestor in document order,
\* and nothing else; record i has index i - 1 and the kind of its element.  It
\* grows in that order while the loops run and is complete at return.
C4_DisplayBeforeInline ==
    epc \in {"display", "inline", "done"} =>
        /\ Len(equations) = Len(src_nodes)
        /\ IsPrefix(src_nodes, Displays0 \o Inlines0)
        /\ \A i \in 1..Len(equations) :
              /\ equations[i].idx = i - 1
              /\ equations[i].kind =
                    (IF body0[src_nodes[i]].tag = "oMathPara" THEN "display" ELSE "inline")
        /\ epc \in {"inline", "done"} => IsPrefix(Displays0, src_nodes)
        /\ epc = "done" => src_nodes = Displays0 \o Inlines0

\* a document with a standalone inline equation followed by a display equation
\* that holds an inline one: two records, the display one first
C4_Witness ==
    /\ epc = "done"
    /\ \E n \in 1..Len(body0) :
          body0[n].tag = "oMath" /\ \E a \in Ancestors0(n) : body0[a].tag = "oMathPara"
    /\ Len(equations) = 2
    /\ equations[1].kind = "display" /\ equations[2].kind = "inline"
    /\ src_nodes[2] < src_nodes[1]

IsSubstringOf(a, b) ==
    \E i \in 0..(Len(b) - Len(a)) : Slice(b, i, i + Len(a)) = a

DigitValue(c) ==
    CASE c = "0" -> 0 [] c = "1" -> 1 [] c = "2" -> 2 [] c = "3" -> 3 [] c = "4" -> 4
      [] c = "5" -> 5 [] c = "6" -> 6 [] c = "7" -> 7 [] c = "8" -> 8 [] c = "9" -> 9
      [] OTHER -> -1

RECURSIVE ToNat(_)
ToNat(ds) ==
    IF ds = <<>> THEN 0 ELSE 10 * ToNat(SubSeq(ds, 1, Len(ds) - 1)) + DigitValue(ds[Len(ds)])

\* The kind a placeholder-shaped text @@MATH_<KIND>_<digits>@@ names, or "none".
DecodeKind(ph) ==
    IF Len(ph) >= 19 /\ Slice(ph, 0, 15) =
           <<"@", "@", "M", "A", "T", "H", "_", "D", "I", "S", "P", "L", "A", "Y", "_">>
    THEN "display"
    ELSE IF Len(ph) >= 18 /\ Slice(ph, 0, 14) =
           <<"@", "@", "M", "A", "T", "H", "_", "I", "N", "L", "I", "N", "E", "_">>
    THEN "inline"
    ELSE "none"

\* The index it names, or -1.
DecodeIdx(ph) ==
    LET from == IF DecodeKind(ph) = "display" THEN 15 ELSE 14
        ds   == Slice(ph, from, Len(ph) - 2)
    IN  IF /\ DecodeKind(ph) # "none"
           /\ Slice(ph, Len(ph) - 2, Len(ph)) = <<"@", "@">>
           /\ \A k \in 1..Len(ds) : DigitValue(ds[k]) >= 0
        THEN ToNat(ds)
        ELSE -1

\* indexes on both sides of every change of the number of digits
SampleIdx == {0, 1, 9, 10, 11, 99, 100, 101, 999, 1000, 1001, 9999, 10000, 10001, 10010, 100000}

\* The placeholders of any two different (kind, index) pairs: neither is part
\* of the other, and each decodes to its own pair.
PlaceholdersOfLargeIndexes ==
    \A a \in SampleIdx \X {"display", "inline"} :
        /\ DecodeKind(Placeholder(a[2], a[1])) = a[2]
        /\ DecodeIdx(Placeholder(a[2], a[1])) = a[1]
        /\ \A b \in SampleIdx \X {"display", "inline"} :
              a # b => ~IsSubstringOf(Placeholder(a[2], a[1]), Placeholder(b[2], b[1]))

\* C5: the placeholders of the registry are pairwise distinct, none is a
\* substring of another, no two records share an index, and every placeholder
\* reads back as its record's kind and index.  The same holds of the
\* placeholders of indexes of more than four digits (the format of an index
\* does not depend on the document, so those are checked once, on the empty
\* document).
C5_PlaceholdersUnique ==
    /\ \A i, j \in 1..Len(equations) :
          i # j =>
              /\ equations[i].placeholder # equations[j].placeholder
              /\ ~IsSubstringOf(equations[i].placeholder, equations[j].placeholder)
              /\ equations[i].idx # equations[j].idx
    /\ \A i \in 1..Len(equations) :
          /\ DecodeKind(equations[i].placeholder) = equations[i].kind
          /\ DecodeIdx(equations[i].placeholder) = equations[i].idx
    /\ (epc = "parse" /\ Len(body0) = 1) => PlaceholdersOfLargeIndexes

\* three equations of both kinds extracted
C5_Witness ==
    /\ epc = "done"
    /\ Len(equations) >= 3
    /\ \E i, j \in 1..Len(equations) : equations[i].kind # equations[j].kind

RECURSIVE Preorder(_, _)
RECURSIVE PreorderKids(_, _)
Preorder(t, n) == <<n>> \o PreorderKids(t, t[n].kids)

PreorderKids(t, ks) ==
    IF ks = <<>> THEN <<>> ELSE Preorder(t, Head(ks)) \o PreorderKids(t, Tail(ks))

IsParsed(n) == n <= Len(body0)

\* how many runs of the written body carry the text ph
RunsWith(ph) ==
    Cardinality({k \in 1..Len(sanitized) :
        sanitized[k].ev = "start" /\ sanitized[k].tag = "r" /\ sanitized[k].text = ph})

\* C6: the written body holds no oMathPara and no oMath; every extracted
\* element was replaced at its child position in its parent by a run with its
\* record's placeholder; each record's placeholder occurs exactly once in the
\* written body; the elements outside the equations keep their content and order.
C6_SanitizedBody ==
    epc = "done" =>
        /\ \A k \in 1..Len(sanitized) : ~IsMath(sanitized[k].tag)
        /\ \A i \in 1..Len(equations) :
              LET n   == src_nodes[i]
                  q   == Parent0(n)
                  pos == IndexOf(body0[q].kids, n)
              IN  /\ Len(tree[q].kids) = Len(body0[q].kids)
                  /\ tree[tree[q].kids[pos]] = Elem("r", <<>>, equations[i].placeholder)
        /\ \A i \in 1..Len(equations) : RunsWith(equations[i].placeholder) = 1
        /\ SelectSeq(Preorder(tree, Root), IsParsed) =
              Ascending({n \in 1..Len(body0) :
                  ~IsMath(body0[n].tag) /\ \A a \in Ancestors0(n) : ~IsMath(body0[a].tag)})
        /\ \A n \in 1..Len(body0) :
              tree[n].tag = body0[n].tag /\ tree[n].text = body0[n].text

-----------------------------------------------------------------------------
(* processors/math_extraction.py: _splice, _is_wide_equation *)

\* line 461
WIDE_EQ_THRESHOLD == 300

\* where p starts in s
Occurrences(s, p) ==
    {i \in 0..(Len(s) - Len(p)) : At(s, i) = p[1] /\ Slice(s, i, i + Len(p)) = p}

\* s.replace(p, r): every occurrence of p, leftmost first, none overlapping
RECURSIVE StrReplace(_, _, _)
StrReplace(s, p, r) ==
    LET occ == Occurrences(s, p)
    IN  IF occ = {} THEN s
        ELSE LET i == MinOf(occ)
             IN  Slice(s, 0, i) \o r \o StrReplace(Slice(s, i + Len(p), Len(s)), p, r)

Breaks(s) == {i \in 0..(Len(s) - 1) : At(s, i) = "\n"}

\* max(len(line) for line in latex.split("\n"))
LongestLine(s) ==
    LET starts == {0} \cup {i + 1 : i \in Breaks(s)}
        lens   == {MinOf({i \in Breaks(s) : i >= a} \cup {Len(s)}) - a : a \in starts}
    IN  CHOOSE m \in lens : \A n \in lens : n <= m

\* the strings \\begin\{[pbBvV]?matrix\} matches
MatrixOpeners ==
    {<<"\\", "b", "e", "g", "i", "n", "{">> \o pre \o <<"m", "a", "t", "r", "i", "x", "}">> :
        pre \in {<<>>, <<"p">>, <<"b">>, <<"B">>, <<"v">>, <<"V">>}}

\* len(re.findall(...))
MatrixCount(s) ==
    Cardinality({i \in 0..(Len(s) - 1) :
        At(s, i) = "\\" /\ \E o \in MatrixOpeners :
            i + Len(o) <= Len(s) /\ Slice(s, i, i + Len(o)) = o})

\* A mutant of is_wide_equation: a line of exactly the threshold is wide too.
IsWideAtThreshold(latex) ==
    \/ LongestLine(latex) >= WIDE_EQ_THRESHOLD
    \/ MatrixCount(latex) >= 3

\* _is_wide_equation, lines 429-446
is_wide_equation(latex) ==
    \/ LongestLine(latex) > WIDE_EQ_THRESHOLD
    \/ MatrixCount(latex) >= 3

\* the character U+0060, which a TLA+ string cannot hold
Backtick == "backtick"

ResizeHead ==
    <<"\n", "\n", Backtick, Backtick, Backtick, "{", "=", "l", "a", "t", "e", "x", "}", "\n",
      "\\", "r", "e", "s", "i", "z", "e", "b", "o", "x", "{", "\\", "l", "i", "n",
      "e", "w", "i", "d", "t", "h", "}", "{", "!", "}", "{", "$", "\\", "d", "i",
      "s", "p", "l", "a", "y", "s", "t", "y", "l", "e", "\n">>

ResizeTail == <<"\n", "$", "}", "\n", Backtick, Backtick, Backtick, "\n", "\n">>

DisplayHead == <<"\n", "\n", "$", "$", "\n">>

DisplayTail == <<"\n", "$", "$", "\n", "\n">>

\* A mutant of Replacement: an inline span is set off by spaces.
ReplacementPadded(kind, latex) ==
    IF kind = "display"
    THEN IF is_wide_equation(latex)
         THEN ResizeHead \o latex \o ResizeTail
         ELSE DisplayHead \o latex \o DisplayTail
    ELSE <<" ", "$">> \o latex \o <<"$", " ">>

\* lines 397-413: what a record with non-empty LaTeX is replaced by
Replacement(kind, latex) ==
    IF kind = "display"
    THEN IF is_wide_equation(latex)
         THEN ResizeHead \o latex \o ResizeTail
         ELSE DisplayHead \o latex \o DisplayTail
    ELSE <<"$">> \o latex \o <<"$">>

\* _fix_adjacent_inline, lines 488-494
fix_adjacent_inline == <<"$", " ", "$">>

\* re.sub(r'\$\$(?!\n)', _fix_adjacent_inline, markdown), lines 417-418
RECURSIVE FixAdjacent(_)
FixAdjacent(s) ==
    LET hits == {i \in 0..(Len(s) - 2) :
                    /\ At(s, i) = "$" /\ At(s, i + 1) = "$"
                    /\ (i + 2 = Len(s) \/ At(s, i + 2) # "\n")}
    IN  IF hits = {} THEN s
        ELSE LET i == MinOf(hits)
             IN  Slice(s, 0, i) \o fix_adjacent_inline
                     \o FixAdjacent(Slice(s, i + 2, Len(s)))

\* re.sub(r"\n{4,}", "\n\n\n", markdown), line 421
RECURSIVE CollapseNewlines(_)
CollapseNewlines(s) ==
    LET runs == {i \in 0..(Len(s) - 4) : \A d \in 0..3 : At(s, i + d) = "\n"}
    IN  IF runs = {} THEN s
        ELSE LET i == MinOf(runs)
                 j == MinOf({e \in i..Len(s) : e = Len(s) \/ At(s, e) # "\n"})
             IN  Slice(s, 0, i) \o <<"\n", "\n", "\n">>
                     \o CollapseNewlines(Slice(s, j, Len(s)))

\* A mutant of LatexOf: a record the map does not hold gets a stand-in.
LatexOfNoDefault(eq) == IF eq.idx \in DOMAIN eq_latex THEN eq_latex[eq.idx] ELSE <<"?">>

\* eq_latex.get(idx, "")
LatexOf(eq) == IF eq.idx \in DOMAIN eq_latex THEN eq_latex[eq.idx] ELSE <<>>

\* lines 390-414: one turn of the loop over the registry
SpliceStep ==
    /\ spc = "loop"
    /\ s_k < Len(s_equations)
    /\ LET eq    == s_equations[s_k + 1]
           latex == LatexOf(eq)
       IN  markdown' =
               IF latex = <<>>
               THEN StrReplace(markdown, eq.placeholder, <<>>)
               ELSE StrReplace(markdown, eq.placeholder, Replacement(eq.kind, latex))
    /\ s_k' = s_k + 1
    /\ UNCHANGED <<eq_latex, s_equations, pieces, spc, config, tokVars, extVars, pipVars, parVars, zipVars, funVars, batVars>>

\* lines 416-423: the two closing passes and the return
SpliceFinish ==
    /\ spc = "loop"
    /\ s_k = Len(s_equations)
    /\ markdown' = CollapseNewlines(FixAdjacent(markdown))
    /\ spc' = "done"
    /\ UNCHANGED <<eq_latex, s_equations, s_k, pieces, config, tokVars, extVars, pipVars, parVars, zipVars, funVars, batVars>>

NextSplice == SpliceStep \/ SpliceFinish

-----------------------------------------------------------------------------
(* The arguments of _splice *)

Rep(c, n) == [i \in 1..n |-> c]

\* The registry _extract_math_from_docx returns for these kinds: indexes from 0,
\* each record with the placeholder made for it.
Registry(kinds) ==
    [i \in 1..Len(kinds) |-> EqRecord(i - 1, kinds[i], <<>>, Placeholder(kinds[i], i - 1))]

\* display records come first (pass 1 runs before pass 2)
KindSeqs(n) ==
    UNION {{[i \in 1..k |-> IF i <= d THEN "display" ELSE "inline"] : d \in 0..k} : k \in 0..n}

\* what the LaTeX map says of one record
NoEntry == [has |-> FALSE, text |-> <<>>]

Entry(t) == [has |-> TRUE, text |-> t]

LatexChoices(vals) == {NoEntry, Entry(<<>>)} \cup {Entry(t) : t \in vals}

LatexMap(lat) ==
    [i \in {j \in 0..(Len(lat) - 1) : lat[j + 1].has} |-> lat[i + 1].text]

\* a piece of the markdown text: literal text, or the placeholder of record ph
Lit(t) == [ph |-> 0, lit |-> t]

Ph(k) == [ph |-> k, lit |-> <<>>]

PieceSeqs(lits, n, most) ==
    UNION {[1..m -> {Lit(t) : t \in lits} \cup {Ph(k) : k \in 1..n}] : m \in 0..most}

PieceText(pc, reg) == IF pc.ph = 0 THEN pc.lit ELSE reg[pc.ph].placeholder

RECURSIVE Flatten(_, _)
Flatten(ps, reg) ==
    IF ps = <<>> THEN <<>> ELSE PieceText(Head(ps), reg) \o Flatten(Tail(ps), reg)

Literals == {<<"a">>, <<"\n", "\n">>}

\* LaTeX as the batch converter may return it; the second value quotes a placeholder
PlainVals == {<<"x">>, Placeholder("inline", 0)}

MatrixEnv(pre) ==
    <<"\\", "b", "e", "g", "i", "n", "{">> \o pre \o <<"m", "a", "t", "r", "i", "x", "}">>
        \o <<"a">>
        \o <<"\\", "e", "n", "d", "{">> \o pre \o <<"m", "a", "t", "r", "i", "x", "}">>

\* one line of the threshold, one a character longer, two lines of the threshold,
\* two matrices beside a smallmatrix, three matrices
WideVals ==
    { Rep("a", WIDE_EQ_THRESHOLD),
      Rep("a", WIDE_EQ_THRESHOLD + 1),
      Rep("a", WIDE_EQ_THRESHOLD) \o <<"\n">> \o Rep("a", WIDE_EQ_THRESHOLD),
      MatrixEnv(<<"p">>) \o MatrixEnv(<<"s", "m", "a", "l", "l">>) \o MatrixEnv(<<>>),
      MatrixEnv(<<"p">>) \o MatrixEnv(<<"B">>) \o MatrixEnv(<<>>) }

\* two worked calls: an inline equation in a sentence, and a record without LaTeX
Examples ==
    { [kinds |-> <<"inline">>,
       lat   |-> <<Entry(<<"E", "=", "m", "c", "^", "2">>)>>,
       ps    |-> <<Lit(<<"E", "n", "e", "r", "g", "y", " ">>), Ph(1),
                   Lit(<<" ", "i", "s", " ", "f", "u", "n", "d", "a", "m", "e", "n",
                         "t", "a", "l", ".">>)>>] }
    \cup
    { [kinds |-> <<"inline">>,
       lat   |-> <<e>>,
       ps    |-> <<Lit(<<"B", "e", "f", "o", "r", "e", " ">>), Ph(1),
                   Lit(<<" ", "a", "f", "t", "e", "r", ".">>)>>] :
        e \in {NoEntry, Entry(<<>>)} }

SpliceCall(cfg, kinds, lat, ps) ==
    /\ config = cfg
    /\ s_equations = Registry(kinds)
    /\ eq_latex = LatexMap(lat)
    /\ pieces = ps
    /\ markdown = Flatten(ps, Registry(kinds))
    /\ s_k = 0
    /\ spc = "loop"
    /\ TokIdle
    /\ ExtIdle
    /\ PipIdle
    /\ ParIdle
    /\ ZipIdle /\ BatIdle
    /\ FunIdle

SpliceStart(kinds, lat, ps) == SpliceCall(NoConfig, kinds, lat, ps)

InitSplice ==
    \/ \E kinds \in KindSeqs(MaxEqs) :
         \E lat \in [1..Len(kinds) -> LatexChoices(PlainVals)] :
           \E ps \in PieceSeqs(Literals, Len(kinds), MaxPieces) :
             SpliceStart(kinds, lat, ps)
    \/ \E ex \in Examples : SpliceStart(ex.kinds, ex.lat, ex.ps)

SpecSplice == InitSplice /\ [][NextSplice]_vars

InitSpliceWide ==
    \E kinds \in KindSeqs(MaxWideEqs) :
      \E lat \in [1..Len(kinds) -> LatexChoices(WideVals \cup {<<"x">>})] :
        \E ps \in PieceSeqs(Literals, Len(kinds), MaxWidePieces) :
          SpliceStart(kinds, lat, ps)

SpecSpliceWide == InitSpliceWide /\ [][NextSplice]_vars

\* thresholds a configuration may name, about the built-in one
ConfigThresholds == {WIDE_EQ_THRESHOLD - 1, WIDE_EQ_THRESHOLD, WIDE_EQ_THRESHOLD + 1}

InitSpliceConfigured ==
    \E T \in ConfigThresholds :
      \E kinds \in KindSeqs(MaxWideEqs) :
        \E lat \in [1..Len(kinds) -> LatexChoices(WideVals \cup {<<"x">>})] :
          \E ps \in PieceSeqs(Literals, Len(kinds), MaxWidePieces) :
            SpliceCall(ConfigWith(T), kinds, lat, ps)

SpecSpliceConfigured == InitSpliceConfigured /\ [][NextSplice]_vars

-----------------------------------------------------------------------------
(* Properties of _splice *)

SpliceDone == spc = "done"

\* the pieces of the argument text that are the placeholder of record k
Uses(k) == {j \in 1..Len(pieces) : pieces[j].ph = k}

\* the LaTeX the map holds for record k, empty when it holds none
MapText(k) ==
    LET i == s_equations[k].idx
    IN  IF i \in DOMAIN eq_latex THEN eq_latex[i] ELSE <<>>

IsDropped(k) == MapText(k) = <<>>

LongOrManyMatrices(L) == LongestLine(L) > WIDE_EQ_THRESHOLD \/ MatrixCount(L) >= 3

\* what stands for a piece in the result, placeholder by placeholder
ContractPiece(pc) ==
    IF pc.ph = 0 THEN pc.lit
    ELSE LET L == MapText(pc.ph)
         IN  IF L = <<>> THEN <<>>
             ELSE IF s_equations[pc.ph].kind = "inline" THEN <<"$">> \o L \o <<"$">>
             ELSE IF LongOrManyMatrices(L) THEN ResizeHead \o L \o ResizeTail
             ELSE DisplayHead \o L \o DisplayTail

RECURSIVE ContractText(_)
ContractText(ps) ==
    IF ps = <<>> THEN <<>> ELSE ContractPiece(Head(ps)) \o ContractText(Tail(ps))

NotBlank(c) == c \notin {" ", "\n"}

WithoutBlanks(s) == SelectSeq(s, NotBlank)

CountOf(s, c) == Cardinality({i \in 1..Len(s) : s[i] = c})

\* where a `$$` stands that no newline follows
MeetingPairs(s) ==
    {i \in 0..(Len(s) - 2) :
        /\ At(s, i) = "$" /\ At(s, i + 1) = "$"
        /\ (i + 2 = Len(s) \/ At(s, i + 2) # "\n")}

\* the newlines beyond the third of every run of newlines
ExcessNewlines(s) ==
    Cardinality({i \in 3..(Len(s) - 1) : \A d \in 0..3 : At(s, i - d) = "\n"})

\* The result is the text with every placeholder exchanged in place, but for
\* one space put into each meeting pair of `$` and the newlines cut from runs
\* of four or more.
OnlyClosingPassesDiffer ==
    LET E == ContractText(pieces)
    IN  /\ WithoutBlanks(markdown) = WithoutBlanks(E)
        /\ CountOf(markdown, " ") = CountOf(E, " ") + Cardinality(MeetingPairs(E))
        /\ CountOf(markdown, "\n") = CountOf(E, "\n") - ExcessNewlines(E)
        /\ (MeetingPairs(E) = {} /\ ExcessNewlines(E) = 0 => markdown = E)

AllDropped == \A k \in 1..Len(s_equations) : IsDropped(k)

IsLiteral(pc) == pc.ph = 0

LiteralText == Flatten(SelectSeq(pieces, IsLiteral), s_equations)

BeforeAfter ==
    <<"B", "e", "f", "o", "r", "e", " ", " ", "a", "f", "t", "e", "r", ".">>

\* C7 as stated: when a record's LaTeX is missing or empty, its placeholders
\* are removed and the surrounding text is unchanged.  Taken where every record
\* is such a record and the argument text has no run of four newlines.
C7_RemovedAndTextUnchanged ==
    /\ SpliceDone /\ AllDropped
    /\ \E k \in 1..Len(s_equations) : Uses(k) # {}
    /\ ExcessNewlines(Flatten(pieces, s_equations)) = 0
    => markdown = LiteralText

\* C7: a placeholder whose record has no LaTeX, or empty LaTeX, is removed with
\* nothing in its place: no `$` and no other character is introduced, and the
\* rest of the text differs only by what the two closing passes do to the whole
\* text; it is the same text when the removal leaves neither a run of four
\* newlines nor a meeting pair of `$`.
C7_RemovedWithoutResidue ==
    SpliceDone /\ (\E k \in 1..Len(s_equations) : IsDropped(k) /\ Uses(k) # {}) =>
        /\ OnlyClosingPassesDiffer
        /\ AllDropped =>
              /\ WithoutBlanks(markdown) = WithoutBlanks(LiteralText)
              /\ CountOf(markdown, "$") = CountOf(LiteralText, "$")
              /\ Len(markdown) = Len(LiteralText) - ExcessNewlines(LiteralText)

C7_Witness ==
    /\ SpliceDone
    /\ Len(s_equations) = 1 /\ IsDropped(1) /\ Uses(1) # {}
    /\ markdown = BeforeAfter

IsInlineWithLatex(k) == s_equations[k].kind = "inline" /\ ~IsDropped(k)

InlineSpan(k) == <<"$">> \o MapText(k) \o <<"$">>

EnergySentence ==
    <<"E", "n", "e", "r", "g", "y", " ", "$", "E", "=", "m", "c", "^", "2", "$", " ",
      "i", "s", " ", "f", "u", "n", "d", "a", "m", "e", "n", "t", "a", "l", ".">>

C9_NoPlaceholderSurvives ==
    SpliceDone =>
        \A k \in 1..Len(s_equations) :
            Occurrences(markdown, s_equations[k].placeholder) = {}

IsDisplayWithLatex(k) == s_equations[k].kind = "display" /\ ~IsDropped(k)

UsesWhere(Wide) ==
    {j \in 1..Len(pieces) :
        /\ pieces[j].ph # 0
        /\ IsDisplayWithLatex(pieces[j].ph)
        /\ LongOrManyMatrices(MapText(pieces[j].ph)) = Wide}

ResizeboxName == <<"\\", "r", "e", "s", "i", "z", "e", "b", "o", "x">>

\* s holds head, L and tail one after the other
Framed(s, head, L, tail) ==
    \E i \in Occurrences(s, head) :
        /\ i + Len(head) + Len(L) + Len(tail) <= Len(s)
        /\ Slice(s, i + Len(head), i + Len(head) + Len(L)) = L
        /\ Slice(s, i + Len(head) + Len(L), i + Len(head) + Len(L) + Len(tail)) = tail

\* C10: a display record with non-empty LaTeX L whose longest line is over the
\* threshold, or that has three or more matrix openers, is emitted inside the
\* resizebox directive and without `$$`; any other is emitted between `$$`
\* lines with a blank line before and after, and without the directive.
C10_WideRouting ==
    SpliceDone =>
        /\ Cardinality(Occurrences(markdown, <<"$", "$">>)) = 2 * Cardinality(UsesWhere(FALSE))
        /\ Cardinality(Occurrences(markdown, ResizeboxName)) = Cardinality(UsesWhere(TRUE))
        /\ \A j \in UsesWhere(TRUE) :
              Framed(markdown, ResizeHead, MapText(pieces[j].ph), ResizeTail)
        /\ \A j \in UsesWhere(FALSE) :
              Framed(markdown, DisplayHead, MapText(pieces[j].ph), DisplayTail)

C10_Witness ==
    /\ SpliceDone
    /\ UsesWhere(TRUE) # {}
    /\ \E j \in UsesWhere(TRUE) :
          /\ MatrixCount(MapText(pieces[j].ph)) < 3
          /\ LongestLine(MapText(pieces[j].ph)) = WIDE_EQ_THRESHOLD + 1
    /\ Occurrences(markdown, ResizeboxName) # {}

\* C11: with a threshold T in the configuration, a display record with
\* non-empty LaTeX and fewer than three matrix openers is emitted inside the
\* resizebox directive exactly when its longest line is longer than T.
C11_ThresholdFromConfig ==
    SpliceDone /\ config.supplied =>
        \A j \in 1..Len(pieces) :
            /\ pieces[j].ph # 0
            /\ IsDisplayWithLatex(pieces[j].ph)
            /\ MatrixCount(MapText(pieces[j].ph)) < 3
            => (Framed(markdown, ResizeHead, MapText(pieces[j].ph), ResizeTail)
                    <=> LongestLine(MapText(pieces[j].ph)) > config.threshold)

-----------------------------------------------------------------------------
(* _splice on LaTeX that holds a dollar sign; tokenize_math_spans on its result *)

\* LaTeX as the batch converter returns it for "b" and for "5$": _strip_delimiters
\* and _clean_latex leave the escaped dollar sign in place
DollarVals == {<<"b">>, <<"5", "\\", "$">>}

InitSpliceDollar ==
    \E kinds \in KindSeqs(MaxEqs) :
      \E lat \in [1..Len(kinds) -> LatexChoices(DollarVals)] :
        \E ps \in PieceSeqs(Literals, Len(kinds), MaxPieces) :
          SpliceStart(kinds, lat, ps)

SpecSpliceDollar == InitSpliceDollar /\ [][NextSplice]_vars

\* tokenize_math_spans(s), from the end le of the last match on
RECURSIVE TokensFrom(_, _)
TokensFrom(s, le) ==
    IF MatchStarts(s, le) = {} THEN TrailingText(s, le)
    ELSE LET start == MinOf(MatchStarts(s, le))
             end   == MatchAt(s, start)
         IN  TextBefore(s, le, start) \o <<Tok("math", Slice(s, start, end))>>
                 \o TokensFrom(s, end)

\* the pieces j, j + 1 are placeholders of inline records with LaTeX
BackToBack(j) ==
    /\ j + 1 <= Len(pieces)
    /\ pieces[j].ph # 0 /\ IsInlineWithLatex(pieces[j].ph)
    /\ pieces[j + 1].ph # 0 /\ IsInlineWithLatex(pieces[j + 1].ph)

\* C12: two inline equations a and b spliced back to back come out as
\* `$a$ $b$`, which the tokenizer reads as the math span `$a$`, a space and the
\* math span `$b$`; the `$$` lines of display equations stay as emitted.
C12_AdjacentInlineSpaced ==
    SpliceDone =>
        /\ \A j \in 1..Len(pieces) :
              BackToBack(j) =>
                  LET a    == InlineSpan(pieces[j].ph)
                      b    == InlineSpan(pieces[j + 1].ph)
                      toks == TokensFrom(markdown, 0)
                  IN  /\ Occurrences(markdown, a \o <<" ">> \o b) # {}
                      /\ \E i \in 1..(Len(toks) - 2) :
                            /\ toks[i] = Tok("math", a)
                            /\ toks[i + 1] = Tok("text", <<" ">>)
                            /\ toks[i + 2] = Tok("math", b)
        /\ \A j \in UsesWhere(FALSE) :
              Framed(markdown, DisplayHead, MapText(pieces[j].ph), DisplayTail)

-----------------------------------------------------------------------------
(* converter.py: convert_docx_to_markdown; MathExtractor.extract_and_convert *)

\* An I/O step or a run of the external converter either succeeds or raises.
Outcomes == {"ok", "raise"}

Go(pc, lg, ws, tm, of, org) ==
    /\ ppc' = pc /\ log' = lg /\ workspace' = ws
    /\ tmp_md' = tm /\ out_file' = of /\ origin' = org
    /\ UNCHANGED <<container, n_equations, math_extraction_enabled, out_file0, processing,
                   tokVars, extVars, splVars, parVars, zipVars, funVars, batVars>>

At_(pc) == Go(pc, log, workspace, tmp_md, out_file, origin)

\* converter.py lines 59-72: the input exists and is a .docx; the output
\* directory is made
Prepare ==
    /\ ppc = "start"
    /\ At_("metadata")

\* line 75, extract_docx_content: docx.Document(path) opens the package and
\* looks up its main part by relationship; a failure is raised as ValueError
ExtractMetadata ==
    /\ ppc = "metadata"
    /\ IF container \in {"corrupt", "no_main_part"}
       THEN At_("raised")
       ELSE At_(IF math_extraction_enabled THEN "math" ELSE "direct")

\* math_extraction.py line 72: with tempfile.TemporaryDirectory(...) as tmp_dir
EnterWorkspace ==
    /\ ppc = "math"
    /\ Go("ec_extract", log, {"tmp"}, tmp_md, out_file, origin)

\* lines 76-78, _extract_math_from_docx (lines 125-206): unzip_docx makes the
\* unpack directory and reads the archive, ET.parse reads word/document.xml,
\* rezip_docx writes sanitized.docx
ExtractMathFromDocx ==
    /\ ppc = "ec_extract"
    /\ IF container # "ok"
       THEN Go("ec_raising", log, workspace \cup {"unpack"}, tmp_md, out_file, origin)
       ELSE \E o \in Outcomes :
              IF o = "ok"
              THEN Go("ec_pandoc", Append(log, "extract"),
                      workspace \cup {"unpack", "sanitized.docx"}, tmp_md, out_file, origin)
              ELSE Go("ec_raising", log,
                      workspace \cup {"unpack", "sanitized.docx"}, tmp_md, out_file, origin)

\* line 88, _run_pandoc on the sanitized container
RunPandoc ==
    /\ ppc = "ec_pandoc"
    /\ \E o \in Outcomes :
         Go(IF o = "ok" THEN "ec_batch" ELSE "ec_raising",
            Append(log, "convert:sanitized"), workspace, tmp_md, out_file, origin)

\* lines 91-92, _batch_convert_equations (lines 227-296): the batch container
\* is built and packed, the converter runs on it once
BatchConvert ==
    /\ ppc = "ec_batch"
    /\ n_equations > 0
    /\ \E o \in Outcomes :
         Go(IF o = "ok" THEN "ec_splice" ELSE "ec_raising",
            Append(log, "convert:batch"),
            workspace \cup {"batch_docx", "batch.docx"}, tmp_md, out_file, origin)

\* A mutant of SkipBatch: the batch converter runs on an empty registry too.
SkipBatchConverting ==
    /\ ppc = "ec_batch"
    /\ n_equations = 0
    /\ Go("ec_splice", Append(log, "convert:batch"), workspace, tmp_md, out_file, origin)

\* lines 93-94: eq_latex = {} for an empty registry
SkipBatch ==
    /\ ppc = "ec_batch"
    /\ n_equations = 0
    /\ At_("ec_splice")

\* line 97
Splice ==
    /\ ppc = "ec_splice"
    /\ Go("ec_leave", Append(log, "splice"), workspace, tmp_md, out_file, origin)

\* the with block is left by the return: the directory is removed (lines 72, 108);
\* converter.py lines 101-105
LeaveWorkspace ==
    /\ ppc = "ec_leave"
    /\ Go("post", log, {}, tmp_md, out_file, "math")

\* the with block is left by an exception: the directory is removed, the
\* exception reaches the except clause of converter.py line 111
LeaveWorkspaceRaising ==
    /\ ppc = "ec_raising"
    /\ Go("except", log, {}, tmp_md, out_file, origin)

\* A mutant of FallBack: the exception is passed on.
FallBackReraising ==
    /\ ppc = "except"
    /\ At_("raised")

\* converter.py lines 111-116: one conversion of the input file itself
FallBack ==
    /\ ppc = "except"
    /\ \E o \in Outcomes :
         Go(IF o = "ok" THEN "post" ELSE "raised",
            Append(log, "convert:original"), workspace, tmp_md, out_file,
            IF o = "ok" THEN "fallback" ELSE origin)

\* lines 117-123: math extraction is switched off
DirectConvert ==
    /\ ppc = "direct"
    /\ \E o \in Outcomes :
         Go(IF o = "ok" THEN "post" ELSE "raised",
            Append(log, "convert:original"), workspace, tmp_md, out_file,
            IF o = "ok" THEN "direct" ELSE origin)

\* a step that runs when its condition holds
LogIf(lg, cond, step) == IF cond THEN Append(lg, step) ELSE lg

\* The steps 3 to 6 with the equation fix run whatever the math extraction did.
InMemoryStepsNeverSkipping ==
    /\ ppc = "post"
    /\ Go("tmpfile",
          LogIf(LogIf(LogIf(log, processing["cleanup"], "cleanup"),
                      processing["fix_unicode"], "unicode_fix"),
                processing["fix_equations"], "equation_fix"),
          workspace, tmp_md, out_file, origin)

\* lines 125-144, steps 3 to 6, each under its flag; step 6 is skipped after
\* a math extraction (skip_equation_fix, lines 103 and 142)
InMemorySteps ==
    /\ ppc = "post"
    /\ Go("tmpfile",
          LogIf(LogIf(LogIf(log, processing["cleanup"], "cleanup"),
                      processing["fix_unicode"], "unicode_fix"),
                processing["fix_equations"] /\ origin # "math", "equation_fix"),
          workspace, tmp_md, out_file, origin)

\* lines 150-155: the temporary file is made and markdown_content written
\* to it; the try block starts after it
WriteTempFile ==
    /\ ppc = "tmpfile"
    /\ \E o \in Outcomes :
         Go(IF o = "ok" THEN "file_steps" ELSE "raised",
            log, workspace, "exists", out_file, origin)

\* lines 157-197, steps 7 to 9 and the read back; step 7 runs under its flag
\* and is skipped after a math extraction (skip_fix_delimiters, lines 104, 160)
FileSteps ==
    /\ ppc = "file_steps"
    /\ \E o \in Outcomes :
         Go(IF o = "ok" THEN "finally" ELSE "finally_raising",
            LogIf(log, processing["fix_delimiters"] /\ origin # "math", "fix_delimiters"),
            workspace, tmp_md, out_file, origin)

\* lines 199-203: finally os.unlink(tmp_path), an OSError of it is passed over
UnlinkTemp ==
    /\ ppc \in {"finally", "finally_raising"}
    /\ \E o \in Outcomes :
         Go(IF ppc = "finally" THEN "final" ELSE "raised",
            log, workspace, IF o = "ok" THEN "deleted" ELSE tmp_md, out_file, origin)

\* lines 205-219, steps 10 and 11
FinalSteps ==
    /\ ppc = "final"
    /\ Go("write", LogIf(log, processing["cleanup"], "final_sanitize"),
          workspace, tmp_md, out_file, origin)

\* lines 221-223: open(output_path, "w") empties the file, f.write fills it
WriteOutput ==
    /\ ppc = "write"
    /\ \E o \in Outcomes :
         Go(IF o = "ok" THEN "returned" ELSE "raised",
            log, workspace, tmp_md,
            IF o = "ok" THEN "complete" ELSE "partial", origin)

Containers == {"ok", "corrupt", "no_main_part", "main_elsewhere"}

InitPipeline ==
    /\ container \in Containers
    /\ n_equations \in 0..MaxEqs
    /\ math_extraction_enabled \in BOOLEAN
    /\ out_file0 \in {"absent", "old"}
    /\ out_file = out_file0
    /\ ppc = "start" /\ log = <<>> /\ workspace = {} /\ tmp_md = "none"
    /\ origin = "none"
    /\ processing = DefaultProcessing
    /\ TokIdle /\ ExtIdle /\ SplIdle /\ ParIdle /\ ZipIdle /\ FunIdle /\ BatIdle

NextPipeline ==
    \/ Prepare
    \/ ExtractMetadata
    \/ EnterWorkspace
    \/ ExtractMathFromDocx
    \/ RunPandoc
    \/ BatchConvert
    \/ SkipBatch
    \/ Splice
    \/ LeaveWorkspace
    \/ LeaveWorkspaceRaising
    \/ FallBack
    \/ DirectConvert
    \/ InMemorySteps
    \/ WriteTempFile
    \/ FileSteps
    \/ UnlinkTemp
    \/ FinalSteps
    \/ WriteOutput

SpecPipeline == InitPipeline /\ [][NextPipeline]_vars

\* the same call with any processing flags, on a well-formed container
InitPipelineFlags ==
    /\ container = "ok"
    /\ n_equations \in 0..MaxEqs
    /\ math_extraction_enabled \in BOOLEAN
    /\ out_file0 = "absent"
    /\ out_file = out_file0
    /\ ppc = "start" /\ log = <<>> /\ workspace = {} /\ tmp_md = "none"
    /\ origin = "none"
    /\ processing \in [StepFlags -> BOOLEAN]
    /\ TokIdle /\ ExtIdle /\ SplIdle /\ ParIdle /\ ZipIdle /\ FunIdle /\ BatIdle

SpecPipelineFlags == InitPipelineFlags /\ [][NextPipeline]_vars

-----------------------------------------------------------------------------
(* Properties of the pipeline *)

InExtractAndConvert(e) ==
    e \in {"extract", "convert:sanitized", "convert:batch", "splice"}

\* the steps of extract_and_convert a registry of n records asks for, in order
StepsFor(n) ==
    <<"extract", "convert:sanitized">>
        \o (IF n > 0 THEN <<"convert:batch">> ELSE <<>>)
        \o <<"splice">>

CountIn(q, e) == Cardinality({i \in 1..Len(q) : q[i] = e})

\* C13: within one extract_and_convert call the steps taken so far are the
\* first steps of: extraction, one structural conversion, one batch conversion
\* when the registry is non-empty and none when it is empty, splicing.
C13_StrictSequence ==
    LET done == SelectSeq(log, InExtractAndConvert)
    IN  /\ IsPrefix(done, StepsFor(n_equations))
        /\ CountIn(log, "convert:sanitized") <= 1
        /\ CountIn(log, "convert:batch") <= (IF n_equations > 0 THEN 1 ELSE 0)
        /\ ppc = "ec_leave" =>
              /\ done = StepsFor(n_equations)
              /\ CountIn(log, "convert:sanitized") = 1
              /\ CountIn(log, "convert:batch") = (IF n_equations > 0 THEN 1 ELSE 0)

C13_Witness ==
    /\ ppc = "ec_leave"
    /\ n_equations > 0
    /\ log = <<"extract", "convert:sanitized", "convert:batch", "splice">>

LastOf(q) == q[Len(q)]

\* C16: when the structural or the batch conversion (or anything else on the
\* math-extraction path) raises, the call goes on with one conversion of the
\* input file itself and the steps after it, and raises at that stage only
\* when that conversion raises; no conversion is run twice.
C16_FallBackOnConverterFailure ==
    /\ CountIn(log, "convert:original") <= 1
    /\ CountIn(log, "convert:sanitized") <= 1
    /\ CountIn(log, "convert:batch") <= 1
    /\ ppc = "raised" /\ tmp_md = "none" /\ ~(container \in {"corrupt", "no_main_part"}) =>
          log # <<>> /\ LastOf(log) = "convert:original"
    /\ origin = "fallback" =>
          /\ math_extraction_enabled
          /\ LastOf(SelectSeq(log, InExtractAndConvert) \o <<"none">>) # "splice"
          /\ CountIn(log, "convert:original") = 1
    /\ origin = "fallback" /\ ppc = "returned" =>
          /\ CountIn(log, "equation_fix") = 1
          /\ CountIn(log, "fix_delimiters") = 1
          /\ out_file = "complete"

C16_Witness ==
    /\ ppc = "returned"
    /\ origin = "fallback"
    /\ CountIn(log, "convert:batch") = 1
    /\ out_file = "complete"

\* C17: for an input whose container is faulty (a corrupt archive, a missing
\* required part such as word/document.xml) the call raises and leaves the
\* output path as it was.  Taken with math extraction switched on.
C17_ContainerErrorFatal ==
    container # "ok" /\ math_extraction_enabled =>
        /\ ppc # "returned"
        /\ out_file = out_file0

\* C18: once extract_and_convert has handed control back, nothing of its
\* temporary directory exists; once convert_docx_to_markdown has returned or
\* raised, the temporary Markdown file it made does not exist.
C18_TemporariesDeleted ==
    /\ ppc \notin {"ec_extract", "ec_pandoc", "ec_batch", "ec_splice", "ec_leave",
                   "ec_raising"} => workspace = {}
    /\ ppc \in {"returned", "raised"} => tmp_md # "exists"

\* the part of C18 about extract_and_convert alone
WorkspaceDeleted ==
    ppc \notin {"ec_extract", "ec_pandoc", "ec_batch", "ec_splice", "ec_leave",
                "ec_raising"} => workspace = {}

-----------------------------------------------------------------------------
(* math_extraction.py: _parse_batch_output, _strip_delimiters, _clean_latex *)

\* what str.strip() and the pattern \s take as white space (of the characters
\* a TLA+ string can hold)
Whitespace == {" ", "\n", "\t", "\r", "\f"}

DigitChars == {"0", "1", "2", "3", "4", "5", "6", "7", "8", "9"}

LowerChars == {"a", "b", "c", "d", "e", "f", "g", "h", "i", "j", "k", "l", "m",
               "n", "o", "p", "q", "r", "s", "t", "u", "v", "w", "x", "y", "z"}

\* s.lstrip(chars), s.rstrip(chars)
RECURSIVE LStripChars(_, _)
LStripChars(s, chars) ==
    IF s # <<>> /\ s[1] \in chars THEN LStripChars(Tail(s), chars) ELSE s

RECURSIVE RStripChars(_, _)
RStripChars(s, chars) ==
    IF s # <<>> /\ s[Len(s)] \in chars
    THEN RStripChars(SubSeq(s, 1, Len(s) - 1), chars)
    ELSE s

RStrip(s) == RStripChars(s, Whitespace)

\* s.strip()
Strip(s) == LStripChars(RStrip(s), Whitespace)

StartsWith(s, p) == Len(s) >= Len(p) /\ SubSeq(s, 1, Len(p)) = p

EndsWith(s, p) == Len(s) >= Len(p) /\ SubSeq(s, Len(s) - Len(p) + 1, Len(s)) = p

\* s[a:-b]
Inner(s, a, b) == SubSeq(s, a + 1, Len(s) - b)

\* raw_md.split("\n")
RECURSIVE SplitLines(_)
SplitLines(s) ==
    IF Breaks(s) = {} THEN <<s>>
    ELSE LET i == MinOf(Breaks(s))
         IN  <<Slice(s, 0, i)>> \o SplitLines(Slice(s, i + 1, Len(s)))

\* "\n".join(ls)
RECURSIVE JoinLines(_)
JoinLines(ls) ==
    IF ls = <<>> THEN <<>>
    ELSE IF Len(ls) = 1 THEN ls[1]
    ELSE ls[1] \o <<"\n">> \o JoinLines(Tail(ls))

\* marker_re = @@EQ_(\d{4})@@ (line 332) matched at position i of a line
MarkerAt(line, i) ==
    /\ i + 11 <= Len(line)
    /\ Slice(line, i, i + 5) = <<"@", "@", "E", "Q", "_">>
    /\ \A j \in (i + 5)..(i + 8) : At(line, j) \in DigitChars
    /\ Slice(line, i + 9, i + 11) = <<"@", "@">>

\* marker_re.search(line): the position of the first match, -1 for none
MarkerSearch(line) ==
    LET at == {i \in 0..(Len(line) - 11) : MarkerAt(line, i)}
    IN  IF at = {} THEN -1 ELSE MinOf(at)

\* int(m.group(1))
MarkerIndex(line) ==
    LET i == MarkerSearch(line) IN ToNat(Slice(line, i + 5, i + 9))

\* _strip_delimiters (lines 364-378)
strip_delimiters(latex) ==
    LET s == Strip(latex)
    IN  IF StartsWith(s, <<"$", "$">>) /\ EndsWith(s, <<"$", "$">>)
        THEN Strip(Inner(s, 2, 2))
        ELSE IF StartsWith(s, <<"\\", "[">>) /\ EndsWith(s, <<"\\", "]">>)
        THEN Strip(Inner(s, 2, 2))
        ELSE IF StartsWith(s, <<"$">>) /\ EndsWith(s, <<"$">>)
                /\ ~StartsWith(s, <<"$", "$">>)
        THEN Strip(Inner(s, 1, 1))
        ELSE IF StartsWith(s, <<"\\", "(">>) /\ EndsWith(s, <<"\\", ")">>)
        THEN Strip(Inner(s, 2, 2))
        ELSE s

\* the loop of lines 474-477
RECURSIVE StripTrailingBackslashes(_, _)
StripTrailingBackslashes(c, limit) ==
    IF limit > 0 /\ EndsWith(RStrip(c), <<"\\">>)
    THEN StripTrailingBackslashes(RStrip(RStripChars(RStrip(c), {"\\"})), limit - 1)
    ELSE c

\* the end of the longest run of characters of a set that begins at position i
RECURSIVE RunEnd(_, _, _)
RunEnd(s, i, chars) ==
    IF i < Len(s) /\ At(s, i) \in chars THEN RunEnd(s, i + 1, chars) ELSE i

\* (?:\.[0-9]+)* from position i
RECURSIVE DottedEnd(_, _)
DottedEnd(s, i) ==
    IF i + 1 < Len(s) /\ At(s, i) = "." /\ At(s, i + 1) \in DigitChars
    THEN DottedEnd(s, RunEnd(s, i + 1, DigitChars))
    ELSE i

\* _RE_EQ_NUMBER (lines 451-458) tried at position p: the end of the match, -1
\* for none.  [,.\s\\]* \\? #\( [0-9]+ (?:\.[0-9]+)* [a-z]? \) \s* $ with
\* re.MULTILINE, so $ is the end of the text or the place before a newline.
EqNumberEnd(s, p) ==
    LET q  == RunEnd(s, p, {",", ".", "\\"} \cup Whitespace)
        d  == RunEnd(s, q + 2, DigitChars)
        e  == DottedEnd(s, d)
        f  == IF e < Len(s) /\ At(s, e) \in LowerChars THEN e + 1 ELSE e
        w  == RunEnd(s, f + 1, Whitespace)
        nl == {j \in (f + 1)..(w - 1) : At(s, j) = "\n"}
    IN  IF ~(q + 2 <= Len(s) /\ At(s, q) = "#" /\ At(s, q + 1) = "(") THEN -1
        ELSE IF d = q + 2 THEN -1
        ELSE IF ~(f < Len(s) /\ At(s, f) = ")") THEN -1
        ELSE IF w = Len(s) THEN w
        ELSE IF nl # {} THEN CHOOSE j \in nl : \A k \in nl : k <= j
        ELSE -1

\* _RE_EQ_NUMBER.sub("", content): every match, leftmost first
RECURSIVE RemoveEqNumbers(_)
RemoveEqNumbers(s) ==
    LET starts == {p \in 0..(Len(s) - 1) : EqNumberEnd(s, p) # -1}
    IN  IF starts = {} THEN s
        ELSE LET p == MinOf(starts)
             IN  Slice(s, 0, p) \o RemoveEqNumbers(Slice(s, EqNumberEnd(s, p), Len(s)))

\* _clean_latex (lines 463-485)
clean_latex(c) ==
    LET c1 == StripTrailingBackslashes(c, 20)
        c2 == RemoveEqNumbers(c1)
        c3 == StrReplace(c2, <<"}", "_", "{">>, <<"}", "{", "}", "_", "{">>)
        c4 == StrReplace(c3, <<"}", "^", "{">>, <<"}", "{", "}", "^", "{">>)
    IN  Strip(c4)

IsBlankLine(l) == Strip(l) = <<>>

\* lines 351-354: blank lines popped from both ends
RECURSIVE PopLeadingBlank(_)
PopLeadingBlank(ls) ==
    IF ls # <<>> /\ IsBlankLine(ls[1]) THEN PopLeadingBlank(Tail(ls)) ELSE ls

RECURSIVE PopTrailingBlank(_)
PopTrailingBlank(ls) ==
    IF ls # <<>> /\ IsBlankLine(ls[Len(ls)])
    THEN PopTrailingBlank(SubSeq(ls, 1, Len(ls) - 1))
    ELSE ls

\* the first line at or after j that holds a marker, len(lines) for none
NextMarkerLine(lines, j) ==
    LET ms == {k \in j..(Len(lines) - 1) : MarkerSearch(At(lines, k)) # -1}
    IN  IF ms = {} THEN Len(lines) ELSE MinOf(ms)

\* result[eq_idx] = latex
DictSet(d, k, v) == [x \in DOMAIN d \cup {k} |-> IF x = k THEN v ELSE d[x]]

\* One turn of the outer loop (lines 335-360).  The variant that keeps the
\* marker line in what it collects:
ParseStepKeepingMarker ==
    /\ bpc = "scan"
    /\ LET lines == SplitLines(raw_md)
       IN  /\ p_i < Len(lines)
           /\ IF MarkerSearch(At(lines, p_i)) # -1
              THEN LET stop  == NextMarkerLine(lines, p_i + 1)
                       body  == PopTrailingBlank(PopLeadingBlank(Slice(lines, p_i, stop)))
                       latex == clean_latex(strip_delimiters(Strip(JoinLines(body))))
                   IN  /\ result' = DictSet(result, MarkerIndex(At(lines, p_i)), latex)
                       /\ p_i' = stop
              ELSE /\ p_i' = p_i + 1
                   /\ UNCHANGED result
    /\ UNCHANGED <<raw_md, bpc, tokVars, extVars, splVars, pipVars, zipVars, funVars, batVars>>

\* One turn of the outer loop (lines 335-360): a line without a marker is
\* passed over; at a marker line the lines up to the next marker line are
\* collected, trimmed, joined, stripped of delimiters, cleaned and stored.
ParseStep ==
    /\ bpc = "scan"
    /\ LET lines == SplitLines(raw_md)
       IN  /\ p_i < Len(lines)
           /\ IF MarkerSearch(At(lines, p_i)) # -1
              THEN LET stop  == NextMarkerLine(lines, p_i + 1)
                       body  == PopTrailingBlank(PopLeadingBlank(Slice(lines, p_i + 1, stop)))
                       latex == clean_latex(strip_delimiters(Strip(JoinLines(body))))
                   IN  /\ result' = DictSet(result, MarkerIndex(At(lines, p_i)), latex)
                       /\ p_i' = stop
              ELSE /\ p_i' = p_i + 1
                   /\ UNCHANGED result
    /\ UNCHANGED <<raw_md, bpc, tokVars, extVars, splVars, pipVars, zipVars, funVars, batVars>>

\* line 362: return result
ParseFinish ==
    /\ bpc = "scan"
    /\ p_i >= Len(SplitLines(raw_md))
    /\ bpc' = "done"
    /\ UNCHANGED <<raw_md, result, p_i, tokVars, extVars, splVars, pipVars, zipVars, funVars, batVars>>

NextParse == ParseStep \/ ParseFinish

\* _parse_batch_output(raw_md, equations) is called
ParseCall(text) ==
    /\ raw_md = text /\ result = EmptyDict /\ p_i = 0 /\ bpc = "scan"
    /\ TokIdle /\ ExtIdle /\ SplIdle /\ PipIdle /\ ZipIdle /\ FunIdle /\ BatIdle

\* f"@@EQ_{eq['idx']:04d}@@" (line 312)
EqMarker(i) == <<"@", "@", "E", "Q", "_">> \o Fmt04d(i) \o <<"@", "@">>

\* The lines the converter's output is made of: empty, white space only,
\* a marker, text, a wrapped equation, a line with text before the marker.
BatchLines ==
    { <<>>, <<" ">>, EqMarker(0), EqMarker(1), <<"x">>, <<"$", "y", "$">>,
      <<"t", " ">> \o EqMarker(0) }

MaxBatchLines == 4

InitParse ==
    \E ls \in UNION {[1..n -> BatchLines] : n \in 1..MaxBatchLines} :
        ParseCall(JoinLines(ls))

SpecParse == InitParse /\ [][NextParse]_vars

-----------------------------------------------------------------------------
(* Properties of _parse_batch_output *)

ParseDone == bpc = "done"

\* the lines of the output that hold a marker
MarkerLines(lines) == {j \in 0..(Len(lines) - 1) : MarkerSearch(At(lines, j)) # -1}

\* the lines that hold the marker of index i
MarkerLinesOf(lines, i) == {j \in MarkerLines(lines) : MarkerIndex(At(lines, j)) = i}

\* the lines strictly after line j, up to and not including the next marker
\* line or the end
SegmentAfter(lines, j) ==
    LET free == {k \in (j + 1)..(Len(lines) - 1) :
                    \A m \in (j + 1)..k : m \notin MarkerLines(lines)}
    IN  [n \in 1..Cardinality(free) |-> At(lines, j + n)]

\* a list of lines without its leading and trailing blank lines
WithoutOuterBlanks(seg) ==
    LET full == {k \in 1..Len(seg) : Strip(seg[k]) # <<>>}
    IN  IF full = {} THEN <<>>
        ELSE SubSeq(seg, MinOf(full), CHOOSE k \in full : \A m \in full : m <= k)

\* what is stored for a segment: its lines joined, trimmed, the delimiters
\* stripped, the LaTeX cleaned
BuiltFrom(seg) == clean_latex(strip_delimiters(Strip(JoinLines(WithoutOuterBlanks(seg)))))

\* C14: the map has an entry for index i exactly when a line holds the marker
\* of i; the entry is built from the lines strictly after that marker line (the
\* last one, when several lines hold the marker of i) up to and not including
\* the next marker line or the end, without their leading and trailing blank
\* lines; the lines before the first marker line are in no entry.
C14_EntryPerMarker ==
    LET lines == SplitLines(raw_md)
    IN  /\ DOMAIN result \subseteq {MarkerIndex(At(lines, j)) : j \in MarkerLines(lines)}
        /\ ParseDone =>
              /\ DOMAIN result = {MarkerIndex(At(lines, j)) : j \in MarkerLines(lines)}
              /\ \A i \in DOMAIN result :
                    LET last == CHOOSE j \in MarkerLinesOf(lines, i) :
                                    \A k \in MarkerLinesOf(lines, i) : k <= j
                    IN  result[i] = BuiltFrom(SegmentAfter(lines, last))
              /\ MarkerLines(lines) = {} => result = EmptyDict

C14_Witness ==
    LET lines == SplitLines(raw_md)
    IN  /\ ParseDone
        /\ MarkerLines(lines) # {}
        /\ MinOf(MarkerLines(lines) \cup {Len(lines)}) > 0
        /\ Strip(At(lines, 0)) # <<>>
        /\ \E j \in MarkerLines(lines) :
              /\ Len(SegmentAfter(lines, j)) >= 2
              /\ Strip(SegmentAfter(lines, j)[1]) = <<>>
              /\ result[MarkerIndex(At(lines, j))] = <<"y">>

-----------------------------------------------------------------------------
(* _strip_delimiters on what the converter writes for one equation *)

\* the delimiter pairs of Markdown math
Wrappers == {"dollar", "dollars", "paren", "bracket"}

Opening(w) ==
    CASE w = "dollar"  -> <<"$">>
      [] w = "dollars" -> <<"$", "$">>
      [] w = "paren"   -> <<"\\", "(">>
      [] w = "bracket" -> <<"\\", "[">>
      [] w = "none"    -> <<>>

Closing(w) ==
    CASE w = "dollar"  -> <<"$">>
      [] w = "dollars" -> <<"$", "$">>
      [] w = "paren"   -> <<"\\", ")">>
      [] w = "bracket" -> <<"\\", "]">>
      [] w = "none"    -> <<>>

Wrap(w, x) == Opening(w) \o x \o Closing(w)

\* LaTeX the converter writes between the delimiters: a letter, padded, empty,
\* an escaped dollar at the end, a trailing backslash-space, an equation
\* number, a double subscript, two lines
ContentVals ==
    { <<"x">>, <<" ", "x", " ">>, <<>>, <<"5", "\\", "$">>, <<"x", "\\", " ">>,
      <<"x", "\\", "#", "(", "1", ".", "2", ")">>, <<"a", "}", "_", "{", "b">>,
      <<"a", "\n", "b">> }

\* the output for a batch of one equation: marker paragraph, blank line, the
\* equation in zero, one or two pairs of delimiters
InitParseDelims ==
    \E x \in ContentVals, w1 \in Wrappers \cup {"none"}, w2 \in Wrappers \cup {"none"} :
        ParseCall(EqMarker(0) \o <<"\n", "\n">> \o Wrap(w2, Wrap(w1, x)) \o <<"\n">>)

SpecParseDelims == InitParseDelims /\ [][NextParse]_vars

\* the text handed to _strip_delimiters for the marker line j
TextAfter(lines, j) == Strip(JoinLines(WithoutOuterBlanks(SegmentAfter(lines, j))))

\* a text that begins and ends with a delimiter pair
IsWrapped(t) ==
    \E w \in Wrappers :
        /\ Len(t) >= Len(Opening(w)) + Len(Closing(w))
        /\ StartsWith(t, Opening(w))
        /\ EndsWith(t, Closing(w))

\* C15: _strip_delimiters applied to $X$, $$X$$, \(X\) or \[X\] returns X
\* trimmed; a text without wrapping delimiters is returned trimmed and
\* otherwise unchanged; no value of the map returned by _parse_batch_output
\* begins and ends with a delimiter pair.
C15_DelimitersStripped ==
    LET lines == SplitLines(raw_md)
    IN  /\ \A j \in MarkerLines(lines) :
              LET t == TextAfter(lines, j)
              IN  /\ \A x \in ContentVals, w \in Wrappers :
                        t = Wrap(w, x) => strip_delimiters(t) = Strip(x)
                  /\ ~IsWrapped(t) => strip_delimiters(t) = t
        /\ ParseDone => \A i \in DOMAIN result : ~IsWrapped(result[i])

\* the part of C15 about one pair of delimiters around the listed contents
OnePairStripped ==
    LET lines == SplitLines(raw_md)
    IN  \A j \in MarkerLines(lines) :
            LET t == TextAfter(lines, j)
            IN  /\ \A x \in ContentVals, w \in Wrappers :
                      t = Wrap(w, x) =>
                          /\ strip_delimiters(t) = Strip(x)
                          /\ ParseDone => /\ result[0] = clean_latex(Strip(x))
                                          /\ ~IsWrapped(result[0])
                /\ ~IsWrapped(t) => strip_delimiters(t) = t

-----------------------------------------------------------------------------
(* utils/docx_xml_utils.py: unzip_docx, rezip_docx *)

\* Names of files and directories, in the order of their first characters'
\* code points ('.' < '[' < '_' < 'd' < 'w'), which is how str compares them.
NameOrder == <<".rels", "[Content_Types].xml", "_rels", "document.xml", "word">>

NameRank(n) == CHOOSE i \in 1..Len(NameOrder) : NameOrder[i] = n

\* Path.__lt__: the parts compared one after the other, a proper prefix first
RECURSIVE PathLess(_, _)
PathLess(a, b) ==
    IF a = <<>> THEN b # <<>>
    ELSE IF b = <<>> THEN FALSE
    ELSE IF a[1] = b[1] THEN PathLess(Tail(a), Tail(b))
    ELSE NameRank(a[1]) < NameRank(b[1])

\* sorted(...): each path put in its place among those already in order
RECURSIVE Insert(_, _)
Insert(x, q) ==
    IF q = <<>> THEN <<x>>
    ELSE IF PathLess(q[1], x) THEN <<q[1]>> \o Insert(x, Tail(q))
    ELSE <<x>> \o q

RECURSIVE Sorted(_)
Sorted(q) == IF q = <<>> THEN <<>> ELSE Insert(q[1], Sorted(Tail(q)))

\* the listing taken as rglob gave it
ListingAsGiven(q) == q

\* sorted(source.rglob("*")), line 60
SortedListing(q) == Sorted(q)

\* ZIP_DEFLATED: the bytes recoded, and read back by the inverse
Deflate(d) == <<"deflate-header">> \o d

Inflate(p) == Tail(p)

Encode(method, d) == IF method = "deflated" THEN Deflate(d) ELSE d

Decode(method, p) == IF method = "deflated" THEN Inflate(p) ELSE p

\* a member of an archive
Member(path, method, d) ==
    [name |-> path, dir |-> FALSE, method |-> method, payload |-> Encode(method, d)]

DirMember(path) == [name |-> path, dir |-> TRUE, method |-> "stored", payload |-> <<>>]

\* ZipFile.read(name): the last member of that name, decoded
ReadPart(archive, path) ==
    LET at == {i \in 1..Len(archive) : archive[i].name = path /\ ~archive[i].dir}
        i  == CHOOSE i \in at : \A j \in at : j <= i
    IN  Decode(archive[i].method, archive[i].payload)

\* the names of the parts (the members that are files)
PartNames(archive) == {archive[i].name : i \in {j \in 1..Len(archive) : ~archive[j].dir}}

\* the directories above a path
ParentsOf(path) == {SubSeq(path, 1, n) : n \in 1..(Len(path) - 1)}

\* unzip_docx, lines 44-46: the directory is made and the archive opened
\* (a file that is no archive raises here); extractall, line 47, takes the
\* members in archive order, one per step: a directory member is made, a file
\* member is written under its name, its parents made and an earlier file of
\* that name overwritten.
UnzipMember ==
    /\ zpc = "unzip"
    /\ z_k < Len(zip_in)
    /\ LET m == zip_in[z_k + 1]
       IN  \E o \in Outcomes :
             IF o = "raise"
             THEN /\ zpc' = "raised"
                  /\ UNCHANGED <<dest_files, dest_dirs, z_k>>
             ELSE /\ z_k' = z_k + 1
                  /\ zpc' = zpc
                  /\ IF m.dir
                     THEN /\ dest_dirs' = dest_dirs \cup {m.name} \cup ParentsOf(m.name)
                          /\ UNCHANGED dest_files
                     ELSE /\ dest_dirs' = dest_dirs \cup ParentsOf(m.name)
                          /\ dest_files' = DictSet(dest_files, m.name,
                                                   Decode(m.method, m.payload))
    /\ UNCHANGED <<zip_in, pending, zip_out, zip_at, zip_at0,
                   tokVars, extVars, splVars, pipVars, parVars, funVars, batVars>>

\* line 48: return dest; the caller goes on to rezip_docx
UnzipReturn ==
    /\ zpc = "unzip"
    /\ z_k = Len(zip_in)
    /\ zpc' = "open"
    /\ UNCHANGED <<zip_in, dest_files, dest_dirs, z_k, pending, zip_out, zip_at, zip_at0,
                   tokVars, extVars, splVars, pipVars, parVars, funVars, batVars>>

\* the entries of the top of the directory
TopNames == {p[1] : p \in DOMAIN dest_files \cup dest_dirs}

\* what lies under a top entry, in some order
RECURSIVE SeqOf(_)
SeqOf(S) == IF S = {} THEN <<>> ELSE LET x == CHOOSE x \in S : TRUE IN <<x>> \o SeqOf(S \ {x})

Under(t) == SeqOf({p \in DOMAIN dest_files \cup dest_dirs : Len(p) > 1 /\ p[1] = t})

\* source.rglob("*"): every entry, the entries of one directory in the order
\* the file system gives them
RECURSIVE Walk(_)
Walk(tops) ==
    IF tops = <<>> THEN <<>>
    ELSE <<<<tops[1]>>>> \o Under(tops[1]) \o Walk(Tail(tops))

Orders(S) ==
    {f \in [1..Cardinality(S) -> S] : \A i, j \in 1..Cardinality(S) : f[i] = f[j] => i = j}

\* rezip_docx, lines 59-60: the archive is opened for writing at the output
\* path itself, which empties what was there; the directory is listed and the
\* listing sorted.
RezipOpen ==
    /\ zpc = "open"
    /\ \E o \in Outcomes :
         IF o = "raise"
         THEN /\ zpc' = "raised"
              /\ UNCHANGED <<pending, zip_out, zip_at>>
         ELSE \E tops \in Orders(TopNames) :
                /\ pending' = SortedListing(Walk(tops))
                /\ zip_out' = <<>>
                /\ zip_at' = "partial"
                /\ zpc' = "write"
    /\ UNCHANGED <<zip_in, dest_files, dest_dirs, z_k, zip_at0,
                   tokVars, extVars, splVars, pipVars, parVars, funVars, batVars>>

\* lines 60-63: the next path of the sorted listing; a file is written,
\* deflated, under its path relative to the directory; anything else is
\* passed over.  A failing read or write raises, and the archive is closed
\* where it stands.
RezipWrite ==
    /\ zpc = "write"
    /\ pending # <<>>
    /\ LET path == pending[1]
       IN  IF path \in DOMAIN dest_files
           THEN \E o \in Outcomes :
                  IF o = "raise"
                  THEN /\ zpc' = "raised"
                       /\ UNCHANGED <<pending, zip_out>>
                  ELSE /\ zip_out' = Append(zip_out,
                                            Member(path, "deflated", dest_files[path]))
                       /\ pending' = Tail(pending)
                       /\ zpc' = zpc
           ELSE /\ pending' = Tail(pending)
                /\ UNCHANGED <<zip_out, zpc>>
    /\ UNCHANGED <<zip_in, dest_files, dest_dirs, z_k, zip_at, zip_at0,
                   tokVars, extVars, splVars, pipVars, parVars, funVars, batVars>>

\* the end of the with block, line 64: the archive is closed and complete
RezipClose ==
    /\ zpc = "write"
    /\ pending = <<>>
    /\ zip_at' = "complete"
    /\ zpc' = "done"
    /\ UNCHANGED <<zip_in, dest_files, dest_dirs, z_k, pending, zip_out, zip_at0,
                   tokVars, extVars, splVars, pipVars, parVars, funVars, batVars>>

NextCodec == UnzipMember \/ UnzipReturn \/ RezipOpen \/ RezipWrite \/ RezipClose

\* The members a container is made of here: three parts, each with one of two
\* contents (one stored, one deflated), and a directory member.
MemberVals ==
    LET paths == { <<"[Content_Types].xml">>, <<"word", "document.xml">>,
                   <<"_rels", ".rels">> }
    IN  {Member(p, "stored", <<"A">>) : p \in paths}
          \cup {Member(p, "deflated", <<"B", "B">>) : p \in paths}
          \cup {DirMember(<<"word">>)}

MaxMembers == 3

\* unzip_docx(c, dest_dir) is called with a new dest_dir, the output path
\* absent or holding an older archive
InitCodec ==
    /\ zip_in \in UNION {[1..n -> MemberVals] : n \in 1..MaxMembers}
    /\ dest_files = EmptyDict /\ dest_dirs = {} /\ z_k = 0
    /\ pending = <<>> /\ zip_out = <<>>
    /\ zip_at0 \in {"absent", "old"}
    /\ zip_at = zip_at0
    /\ zpc = "unzip"
    /\ TokIdle /\ ExtIdle /\ SplIdle /\ PipIdle /\ ParIdle /\ FunIdle /\ BatIdle

SpecCodec == InitCodec /\ [][NextCodec]_vars

-----------------------------------------------------------------------------
(* Properties of the container codec *)

NamesOf(archive) == [i \in 1..Len(archive) |-> archive[i].name]

\* C20: unzip_docx then rezip_docx gives an archive with the part names of the
\* container, each part with the bytes it has in the container; the members
\* are written in ascending order of their paths, whatever order the directory
\* was listed in, so the member sequence is fixed by the directory.
C20_RoundTrip ==
    /\ \A i \in 1..(Len(zip_out) - 1) : PathLess(zip_out[i].name, zip_out[i + 1].name)
    /\ zpc = "done" =>
          /\ PartNames(zip_out) = PartNames(zip_in)
          /\ \A p \in PartNames(zip_in) : ReadPart(zip_out, p) = ReadPart(zip_in, p)
          /\ \A i \in 1..Len(zip_out) :
                /\ ~zip_out[i].dir
                /\ zip_out[i].payload = Deflate(dest_files[zip_out[i].name])

C20_Witness ==
    /\ zpc = "done"
    /\ Len(zip_out) >= 2
    /\ \E i \in 1..Len(zip_in) : zip_in[i].dir
    /\ \E i \in 1..(Len(zip_in) - 1) :
          /\ ~zip_in[i].dir /\ ~zip_in[i + 1].dir
          /\ PathLess(zip_in[i + 1].name, zip_in[i].name)
    /\ \E i \in 1..Len(zip_in) : ~zip_in[i].dir /\ zip_in[i].method = "stored"

\* C19: when rezip_docx raises, the output path holds what it held before or
\* the complete new archive, never a part of one.
C19_NoPartialOutput ==
    zpc = "raised" => zip_at \in {zip_at0, "complete"}

\* the same for the final write of convert_docx_to_markdown (converter.py,
\* lines 221-223)
FinalWriteAtomic ==
    ppc = "raised" => out_file \in {out_file0, "complete"}

-----------------------------------------------------------------------------
(* _clean_latex called on its own result *)

\* how many times in a row a sanitizer is called
MaxCalls == 2

\* pieces of the LaTeX of an equation: a letter, a subscript, a superscript,
\* a braced group, a backslash-space, an equation number, a space
LatexAtoms ==
    { <<"x">>, <<"_", "{", "a", "}">>, <<"^", "{", "b", "}">>, <<"{", "y", "}">>,
      <<"\\", " ">>, <<".", "\\", "#", "(", "1", ".", "1", ")">>, <<" ">> }

MaxAtoms == 3

RECURSIVE Concat(_)
Concat(q) == IF q = <<>> THEN <<>> ELSE q[1] \o Concat(Tail(q))

AtomTexts == {Concat(q) : q \in UNION {[1..n -> LatexAtoms] : n \in 0..MaxAtoms}}

InitCleanLatex ==
    /\ f_arg \in AtomTexts
    /\ f_outs = <<>>
    /\ TokIdle /\ ExtIdle /\ SplIdle /\ PipIdle /\ ParIdle /\ ZipIdle /\ BatIdle

\* the value the next call is given
LastValue == IF f_outs = <<>> THEN f_arg ELSE f_outs[Len(f_outs)]

\* latex = self._clean_latex(latex)
CleanLatexCall ==
    /\ Len(f_outs) < MaxCalls
    /\ f_outs' = Append(f_outs, clean_latex(LastValue))
    /\ UNCHANGED <<f_arg, tokVars, extVars, splVars, pipVars, parVars, zipVars, batVars>>

SpecCleanLatex == InitCleanLatex /\ [][CleanLatexCall]_vars

\* C22: _clean_latex applied to its own result returns it unchanged.
C22_CleanLatexIdempotent ==
    Len(f_outs) >= 2 => f_outs[2] = f_outs[1]

\* the opening brace of the group that the closing brace at position i ends,
\* -1 for none
RECURSIVE OpenerOf(_, _, _)
OpenerOf(t, i, depth) ==
    IF i < 0 THEN -1
    ELSE IF At(t, i) = "}" THEN OpenerOf(t, i - 1, depth + 1)
    ELSE IF At(t, i) = "{" THEN (IF depth = 1 THEN i ELSE OpenerOf(t, i - 1, depth - 1))
    ELSE OpenerOf(t, i - 1, depth)

\* a subscript or superscript group directly followed by another group of the
\* same kind: the base carries two subscripts or two superscripts
HasDoubleScript(t) ==
    \E c \in {"_", "^"} :
        \E i \in Occurrences(t, <<"}", c, "{">>) :
            LET o == OpenerOf(t, i, 0) IN o >= 1 /\ At(t, o - 1) = c

\* nothing for _clean_latex to do
IsCleanLatex(t) ==
    /\ ~EndsWith(RStrip(t), <<"\\">>)
    /\ Occurrences(t, <<"#">>) = {}
    /\ ~HasDoubleScript(t)

\* C27: an input with no trailing backslash, no equation number and no base
\* with two subscripts or two superscripts is returned as it is, trimmed.
C27_CleanLatexFrame ==
    Len(f_outs) >= 1 /\ IsCleanLatex(f_arg) => f_outs[1] = Strip(f_arg)

\* the part of C27 that holds: without any group followed by a script
NoScriptAfterGroup ==
    /\ Len(f_outs) >= 1 /\ IsCleanLatex(f_arg)
    /\ Occurrences(f_arg, <<"}", "_", "{">>) = {}
    /\ Occurrences(f_arg, <<"}", "^", "{">>) = {}
    => f_outs[1] = Strip(f_arg)

-----------------------------------------------------------------------------
(* _build_batch_document and _parse_batch_output on the indexes of a long
   document *)

\* how many consecutive records of the registry are looked at
MaxWindow == 2

\* where the records looked at begin: at the first record, and around the
\* first index that needs more digits than the format pads to
WindowStarts == {0, 10^IdxWidth - 2, 10^IdxWidth - 1, 10^IdxWidth}

\* what the converter gives for the equation of a record: LaTeX, or nothing
ConvertedVals == { <<"x">>, <<"y", "^", "2">>, <<>> }

\* the converter's output for the batch document of lines 311-318: for each
\* record its marker paragraph, then its equation as inline math
RECURSIVE BatchOutput(_, _)
BatchOutput(recs, conv) ==
    IF recs = <<>> THEN <<>>
    ELSE EqMarker(recs[1].idx) \o <<"\n", "\n">>
           \o (IF conv[1] = <<>> THEN <<>> ELSE Wrap("dollar", conv[1]) \o <<"\n", "\n">>)
           \o BatchOutput(Tail(recs), Tail(conv))

WindowRecords(k, n) ==
    [j \in 1..n |-> EqRecord(k + j - 1, "inline", <<>>, Placeholder("inline", k + j - 1))]

\* _parse_batch_output(raw_md, equations) is called for records k .. k+n-1
InitParseLong ==
    \E k \in WindowStarts, n \in 1..MaxWindow :
        \E conv \in [1..n -> ConvertedVals] :
            /\ equations = WindowRecords(k, n)
            /\ raw_md = BatchOutput(WindowRecords(k, n), conv)
            /\ result = EmptyDict /\ p_i = 0 /\ bpc = "scan"
            /\ tree = <<>> /\ parent_map = <<>> /\ idx = 0
            /\ todo = <<>> /\ sanitized = <<>> /\ body0 = <<>> /\ src_nodes = <<>>
            /\ epc = "idle"
            /\ TokIdle /\ SplIdle /\ PipIdle /\ ZipIdle /\ FunIdle /\ BatIdle

SpecParseLong == InitParseLong /\ [][NextParse]_vars

\* the lines after the marker line of a record hold converted content
HasContent(lines, i) ==
    \E j \in 0..(Len(lines) - 1) :
        /\ At(lines, j) = EqMarker(i)
        /\ j + 2 < Len(lines)
        /\ At(lines, j + 2) # <<>>
        /\ MarkerSearch(At(lines, j + 2)) = -1

\* C30: the marker written for every record is found by the marker pattern
\* and read back as the record's index; a record whose marker and non-empty
\* content are in the output has a non-empty entry under its index, and every
\* key of the map is the index of a record.
C30_MarkerRoundTrip ==
    LET lines == SplitLines(raw_md)
        ids   == {equations[j].idx : j \in 1..Len(equations)}
    IN  /\ DOMAIN result \subseteq ids
        /\ ParseDone =>
              \A i \in ids :
                  /\ MarkerSearch(EqMarker(i)) = 0
                  /\ MarkerIndex(EqMarker(i)) = i
                  /\ HasContent(lines, i) => i \in DOMAIN result /\ result[i] # <<>>

\* the same for the records whose index has no more digits than the format
\* pads to
FourDigitMarkersRoundTrip ==
    LET lines == SplitLines(raw_md)
        ids   == {equations[j].idx : j \in 1..Len(equations)}
    IN  (\A i \in ids : i < 10^IdxWidth) =>
          /\ \A i \in ids : MarkerSearch(EqMarker(i)) = 0 /\ MarkerIndex(EqMarker(i)) = i
          /\ DOMAIN result \subseteq ids
          /\ ParseDone =>
                \A i \in ids :
                    HasContent(lines, i) => i \in DOMAIN result /\ result[i] # <<>>

-----------------------------------------------------------------------------
(* Which steps of convert_docx_to_markdown run *)

Ran(step) == CountIn(log, step) > 0

\* the call is past the steps 3 to 6
PastInMemorySteps ==
    ppc \in {"tmpfile", "file_steps", "finally", "finally_raising", "final", "write",
             "returned"}

\* the call is past the steps 7 to 9
PastFileSteps == ppc \in {"finally", "finally_raising", "final", "write", "returned"}

\* the call is past step 10
PastFinalSteps == ppc \in {"write", "returned"}

\* C28: the equation fix and fix_delimiters run exactly when their flag is on
\* and the math extraction did not complete (it was off, or it raised and the
\* fallback was taken); cleanup, the unicode fix and final_sanitize run under
\* their flags alone, whatever the math extraction did; no step runs twice.
C28_StepsSkippedAfterMathExtraction ==
    /\ PastInMemorySteps =>
          /\ Ran("equation_fix") <=> (processing["fix_equations"] /\ origin # "math")
          /\ Ran("cleanup") <=> processing["cleanup"]
          /\ Ran("unicode_fix") <=> processing["fix_unicode"]
    /\ PastFileSteps =>
          Ran("fix_delimiters") <=> (processing["fix_delimiters"] /\ origin # "math")
    /\ PastFinalSteps => (Ran("final_sanitize") <=> processing["cleanup"])
    /\ origin = "math" => Ran("splice") /\ ~Ran("convert:original")
    /\ origin = "fallback" => math_extraction_enabled /\ Ran("convert:original")
    /\ origin = "direct" => ~math_extraction_enabled /\ Ran("convert:original")
    /\ PastInMemorySteps => origin # "none"
    /\ \A st \in {"equation_fix", "fix_delimiters", "cleanup", "unicode_fix",
                  "final_sanitize"} : CountIn(log, st) <= 1

C28_Witness ==
    /\ ppc = "returned"
    /\ origin = "math"
    /\ processing = DefaultProcessing
    /\ ~Ran("equation_fix") /\ ~Ran("fix_delimiters")
    /\ Ran("cleanup") /\ Ran("unicode_fix") /\ Ran("final_sanitize")

\* ---------------------------------------------------------------------
\* batch_convert (converter.py 240-320) and what each of its conversions
\* writes (converter.py 78-82, 150-155, 221-223; math_extraction.py 72,
\* 141-197)
\* ---------------------------------------------------------------------

MaxDocs == 2
MaxDocEqs == 2

Dirs == {"", "s"}
Names == {"a", "b"}

\* the documents input_path.glob can return: distinct paths in any order
DocPaths == [dir : Dirs, name : Names]

DocLists ==
    {q \in UNION {[1..n -> DocPaths] : n \in 0..MaxDocs} :
        \A i, j \in DOMAIN q : i # j => q[i] # q[j]}

DocIds == DOMAIN b_docs

\* out_file.parent for document d: output_path / rel_path.parent
OutDir(d) ==
    IF b_docs[d].dir = "" THEN <<"out">> ELSE <<"out", b_docs[d].dir>>

\* out_file = output_path / rel_path.with_suffix(".md")
OutFile(d) == OutDir(d) \o <<b_docs[d].name, ".md">>

\* media_dir = output_path.parent / "./img"
MediaDir(d) == OutDir(d) \o <<"img">>

\* what the converter extracts below --extract-media: the part names of
\* the package, the same for the first image of every document
MediaFile(d) == MediaDir(d) \o <<"media", "image1.png">>

\* NamedTemporaryFile(dir=output_path.parent): a name no other call has
TempMd(d) == OutDir(d) \o <<"tmp", d, ".md">>

\* TemporaryDirectory(prefix="docx2md_math_"): a name no other call has
Workspace(d) == <<"tmp", "docx2md_math_", d>>

Wrote(d, locs) == fs_writes \cup {[loc |-> l, by |-> d] : l \in locs}

Concurrent == b_parallel /\ Len(b_docs) > 1

Ended(d) == b_pos[d] \in {"returned", "raised"}

Collected(d) == \E k \in DOMAIN b_results : b_results[k].input_file = d

ZeroReturn ==
    [files_processed |-> 0, files_succeeded |-> 0, files_failed |-> 0,
     results |-> <<>>]

BatchStart ==
    /\ bcpc = "start"
    /\ IF Len(b_docs) = 0
       THEN b_ret' = ZeroReturn /\ bcpc' = "done"
       ELSE b_ret' = b_ret /\ bcpc' = "run"
    /\ UNCHANGED <<b_docs, b_parallel, b_pos, b_idx, fs_writes, b_results, failed_count,
                   tokVars, extVars, splVars, pipVars, parVars, zipVars, funVars>>

\* a worker of the pool, or the loop, calls convert_docx_to_markdown
DocStart(d) ==
    /\ bcpc = "run" /\ b_pos[d] = "queued"
    /\ Concurrent \/ \A e \in DocIds : e < d => Collected(e)
    /\ b_pos' = [b_pos EXCEPT ![d] = "extract"]
    /\ fs_writes' = Wrote(d, {MediaDir(d), Workspace(d)})
    /\ UNCHANGED <<b_docs, b_parallel, b_idx, b_results, failed_count, b_ret, bcpc,
                   tokVars, extVars, splVars, pipVars, parVars, zipVars, funVars>>

\* one equation of the document gets the next index
DocExtract(d) ==
    /\ b_pos[d] = "extract" /\ Len(b_idx[d]) < MaxDocEqs
    /\ b_idx' = [b_idx EXCEPT ![d] = Append(@, Len(@))]
    /\ UNCHANGED <<b_docs, b_parallel, b_pos, fs_writes, b_results, failed_count, b_ret, bcpc,
                   tokVars, extVars, splVars, pipVars, parVars, zipVars, funVars>>

\* the converter runs with --extract-media=media_dir
DocConvert(d) ==
    /\ b_pos[d] = "extract" /\ Len(b_idx[d]) = MaxDocEqs
    /\ b_pos' = [b_pos EXCEPT ![d] = "temp"]
    /\ fs_writes' = Wrote(d, {MediaFile(d)})
    /\ UNCHANGED <<b_docs, b_parallel, b_idx, b_results, failed_count, b_ret, bcpc,
                   tokVars, extVars, splVars, pipVars, parVars, zipVars, funVars>>

DocTemp(d) ==
    /\ b_pos[d] = "temp"
    /\ b_pos' = [b_pos EXCEPT ![d] = "write"]
    /\ fs_writes' = Wrote(d, {TempMd(d)})
    /\ UNCHANGED <<b_docs, b_parallel, b_idx, b_results, failed_count, b_ret, bcpc,
                   tokVars, extVars, splVars, pipVars, parVars, zipVars, funVars>>

DocWrite(d) ==
    /\ b_pos[d] = "write"
    /\ b_pos' = [b_pos EXCEPT ![d] = "returned"]
    /\ fs_writes' = Wrote(d, {OutFile(d)})
    /\ UNCHANGED <<b_docs, b_parallel, b_idx, b_results, failed_count, b_ret, bcpc,
                   tokVars, extVars, splVars, pipVars, parVars, zipVars, funVars>>

\* the conversion raises an Exception at any of its steps
DocRaise(d) ==
    /\ b_pos[d] \in {"extract", "temp", "write"}
    /\ b_pos' = [b_pos EXCEPT ![d] = "raised"]
    /\ UNCHANGED <<b_docs, b_parallel, b_idx, fs_writes, b_results, failed_count, b_ret, bcpc,
                   tokVars, extVars, splVars, pipVars, parVars, zipVars, funVars>>

\* what results.append gets for document d
ResultEntry(d) ==
    IF b_pos[d] = "raised"
    THEN [input_file |-> d, error |-> "e", success |-> FALSE]
    ELSE [input_file |-> d, stats |-> "stats"]

CountAfterIgnoring(fc, outcome) == fc

\* failed_count += 1 in the except branch
CountAfter(fc, outcome) == IF outcome = "raised" THEN fc + 1 ELSE fc

\* the body of "for future in as_completed(futures)", or the rest of the
\* body of the sequential loop
Collect(d) ==
    /\ bcpc = "run" /\ Ended(d) /\ ~Collected(d)
    /\ b_results' = Append(b_results, ResultEntry(d))
    /\ failed_count' = CountAfter(failed_count, b_pos[d])
    /\ UNCHANGED <<b_docs, b_parallel, b_pos, b_idx, fs_writes, b_ret, bcpc,
                   tokVars, extVars, splVars, pipVars, parVars, zipVars, funVars>>

BatchReturn ==
    /\ bcpc = "run" /\ \A d \in DocIds : Collected(d)
    /\ b_ret' = [files_processed |-> Len(b_docs),
                 files_succeeded |-> Len(b_docs) - failed_count,
                 files_failed |-> failed_count,
                 results |-> b_results]
    /\ bcpc' = "done"
    /\ UNCHANGED <<b_docs, b_parallel, b_pos, b_idx, fs_writes, b_results, failed_count,
                   tokVars, extVars, splVars, pipVars, parVars, zipVars, funVars>>

NextBatch ==
    \/ BatchStart
    \/ \E d \in DocIds : DocStart(d)
    \/ \E d \in DocIds : DocExtract(d)
    \/ \E d \in DocIds : DocConvert(d)
    \/ \E d \in DocIds : DocTemp(d)
    \/ \E d \in DocIds : DocWrite(d)
    \/ \E d \in DocIds : DocRaise(d)
    \/ \E d \in DocIds : Collect(d)
    \/ BatchReturn

InitBatch ==
    /\ TokIdle /\ ExtIdle /\ SplIdle /\ PipIdle /\ ParIdle /\ ZipIdle /\ FunIdle
    /\ b_docs \in DocLists
    /\ b_parallel \in BOOLEAN
    /\ b_pos = [d \in DOMAIN b_docs |-> "queued"]
    /\ b_idx = [d \in DOMAIN b_docs |-> <<>>]
    /\ fs_writes = {}
    /\ b_results = <<>>
    /\ failed_count = 0
    /\ b_ret = "none"
    /\ bcpc = "start"

SpecBatch == InitBatch /\ [][NextBatch]_vars

EntriesOf(d) == {k \in DOMAIN b_ret.results : b_ret.results[k].input_file = d}

IsFailure(r) == "success" \in DOMAIN r /\ r.success = FALSE /\ "error" \in DOMAIN r

\* C29: when batch_convert returns, every document found was converted to
\* its end whatever the others did, has exactly one entry in results, a
\* failure entry exactly when its conversion raised, and the three counts
\* agree with the number of documents and of failures.
C29_BatchIsolatesFailures ==
    bcpc = "done" =>
        /\ \A d \in DocIds :
            /\ Ended(d)
            /\ Cardinality(EntriesOf(d)) = 1
            /\ \A k \in EntriesOf(d) :
                IsFailure(b_ret.results[k]) <=> b_pos[d] = "raised"
        /\ Len(b_ret.results) = Len(b_docs)
        /\ b_ret.files_processed = Len(b_docs)
        /\ b_ret.files_failed = Cardinality({d \in DocIds : b_pos[d] = "raised"})
        /\ b_ret.files_succeeded = Cardinality({d \in DocIds : b_pos[d] = "returned"})
        /\ b_ret.files_succeeded + b_ret.files_failed = b_ret.files_processed

C29_Witness ==
    /\ bcpc = "done" /\ Concurrent
    /\ \E d, e \in DocIds : b_pos[d] = "raised" /\ b_pos[e] = "returned"
    /\ IsFailure(b_ret.results[1])
    /\ b_ret.results[1].input_file = 1

SequentialFailureThenSuccess ==
    /\ bcpc = "done" /\ ~b_parallel /\ Len(b_docs) = 2
    /\ b_pos[1] = "raised" /\ b_pos[2] = "returned"

\* C25: while batch_convert converts documents concurrently, no filesystem
\* location is written by two of them, and each document's equation
\* indices count up from 0.
C25_NoSharedState ==
    Concurrent =>
        /\ \A v, w \in fs_writes : v.loc = w.loc => v.by = w.by
        /\ \A d \in DocIds : \A k \in DOMAIN b_idx[d] : b_idx[d][k] = k - 1

\* the part of it that the code does keep
PrivateExceptMedia ==
    /\ \A v, w \in fs_writes :
        v.loc = w.loc /\ v.by # w.by =>
            v.loc \in {MediaDir(v.by), MediaFile(v.by)}
    /\ \A d \in DocIds : \A k \in DOMAIN b_idx[d] : b_idx[d][k] = k - 1

-----------------------------------------------------------------------------
(* _fix_equation and EquationFixProcessor.process (equation_fix.py) *)

UpperChars == {"A", "B", "C", "D", "E", "F", "G", "H", "I", "J", "K", "L", "M",
               "N", "O", "P", "Q", "R", "S", "T", "U", "V", "W", "X", "Y", "Z"}

LetterChars == LowerChars \cup UpperChars

\* \w, for the characters of the texts here
WordChars == LetterChars \cup DigitChars \cup {"_"}

\* the literal p stands at position i of s
HasAt(s, i, p) == i + Len(p) <= Len(s) /\ Slice(s, i, i + Len(p)) = p

\* where the first c at or after position i stands, -1 for none
FirstAt(s, i, c) ==
    LET at == {k \in i..(Len(s) - 1) : At(s, k) = c}
    IN  IF at = {} THEN -1 ELSE MinOf(at)

NoMatch == [end |-> -1, repl |-> <<>>]

SumEmpty == <<"\\", "s", "u", "m", "_", "{", "}", "^", "{", "}">>

EmptySup == <<"^", "{", "}">>

\* _P1 tried at position i, with _p1_replace
P1Match(s, i) ==
    LET a == i + Len(SumEmpty)
        b == RunEnd(s, a + 1, Whitespace)
        c == RunEnd(s, b + 1, Whitespace)
        d == RunEnd(s, c, WordChars)
        e == FirstAt(s, d + 2, "}")
    IN  IF /\ HasAt(s, i, SumEmpty)
           /\ a < Len(s) /\ At(s, a) \in LetterChars
           /\ b < Len(s) /\ At(s, b) = "="
           /\ d > c
           /\ HasAt(s, d, <<"^", "{">>)
           /\ e > d + 2
        THEN [end |-> e + 1,
              repl |-> <<"\\", "s", "u", "m", "_", "{">>
                           \o StrReplace(Slice(s, a, d), <<" ">>, <<>>)
                           \o <<"}", "^", "{">> \o Slice(s, d + 2, e) \o <<"}">>]
        ELSE NoMatch

BigOperators ==
    { <<"s", "u", "m">>, <<"p", "r", "o", "d">>, <<"i", "n", "t">>,
      <<"o", "i", "n", "t">>, <<"i", "i", "n", "t">>, <<"i", "i", "i", "n", "t">>,
      <<"b", "i", "g", "c", "u", "p">>, <<"b", "i", "g", "c", "a", "p">>,
      <<"b", "i", "g", "o", "p", "l", "u", "s">>,
      <<"b", "i", "g", "o", "t", "i", "m", "e", "s">>,
      <<"b", "i", "g", "v", "e", "e">>, <<"b", "i", "g", "w", "e", "d", "g", "e">> }

\* _P2 tried at position i, with _p2_replace
P2Match(s, i) ==
    LET a == RunEnd(s, i + 1, LetterChars)
        b == RunEnd(s, a + 2, LetterChars)
    IN  IF /\ i < Len(s) /\ At(s, i) = "\\"
           /\ Slice(s, i + 1, a) \in BigOperators
           /\ HasAt(s, a, <<"_", "{">>)
           /\ b >= a + 4
           /\ HasAt(s, b, <<"}">> \o EmptySup)
        THEN [end |-> b + 4,
              repl |-> Slice(s, i, a) \o <<"_", "{", "\\", "t", "e", "x", "t", "{">>
                           \o Slice(s, a + 2, b) \o <<"}", "}">>]
        ELSE NoMatch

\* _P3 tried at position i, replaced by its group 1
P3Match(s, i) ==
    LET a == RunEnd(s, i + 1, LetterChars)
        c == FirstAt(s, a + 2, "}")
        e == IF HasAt(s, a, <<"_", "{">>) /\ c # -1 THEN c + 1 ELSE a
    IN  IF /\ i < Len(s) /\ At(s, i) = "\\"
           /\ a > i + 1
           /\ HasAt(s, e, EmptySup)
        THEN [end |-> e + 3, repl |-> Slice(s, i, e)]
        ELSE NoMatch

Hslash == <<"\\", "h", "s", "l", "a", "s", "h">>

\* _P4 tried at position i
P4Match(s, i) ==
    IF HasAt(s, i, Hslash)
    THEN [end |-> i + Len(Hslash), repl |-> <<"\\", "h", "b", "a", "r">>]
    ELSE NoMatch

MathbbOpen == <<"\\", "m", "a", "t", "h", "b", "b", "{">>

\* _P5 tried at position i
P5Match(s, i) ==
    LET a == i + Len(MathbbOpen)
    IN  IF /\ HasAt(s, i, MathbbOpen)
           /\ a + 1 < Len(s) /\ At(s, a) \in LowerChars /\ At(s, a + 1) = "}"
        THEN [end |-> a + 2,
              repl |-> <<"\\", "m", "a", "t", "h", "b", "f", "{", At(s, a), "}">>]
        ELSE NoMatch

PatternMatch(k, s, i) ==
    CASE k = 1 -> P1Match(s, i)
      [] k = 2 -> P2Match(s, i)
      [] k = 3 -> P3Match(s, i)
      [] k = 4 -> P4Match(s, i)
      [] k = 5 -> P5Match(s, i)

\* _Pk.sub(replacement, s) from position i on: the matches from left to
\* right, none overlapping
RECURSIVE PatternSub(_, _, _)
PatternSub(k, s, i) ==
    IF i >= Len(s) THEN <<>>
    ELSE LET m == PatternMatch(k, s, i)
         IN  IF m.end # -1 THEN m.repl \o PatternSub(k, s, m.end)
             ELSE <<At(s, i)>> \o PatternSub(k, s, i + 1)

fix_equation(eq) ==
    PatternSub(5, PatternSub(4, PatternSub(3, PatternSub(2,
        PatternSub(1, eq, 0), 0), 0), 0), 0)

RECURSIVE FixTokens(_)
FixTokens(toks) ==
    IF toks = <<>> THEN <<>>
    ELSE (IF toks[1].kind = "math" THEN fix_equation(toks[1].text) ELSE toks[1].text)
             \o FixTokens(Tail(toks))

\* EquationFixProcessor.process, enabled
process(c) == FixTokens(TokensFrom(c, 0))

\* pieces of an equation as the converter writes it
FixAtoms ==
    { <<"\\", "s", "u", "m">>, <<"_", "{", "}">>, EmptySup,
      <<"_", "{", "a", "b", "}">>, <<"i", " ", "=", " ", "1", "^", "{", "n", "}">>,
      Hslash, MathbbOpen \o <<"c", "}">> }

MaxFixAtoms == 4

\* a math span of some pieces, alone or in a content with a text before it
InitFixEquation ==
    /\ TokIdle /\ ExtIdle /\ SplIdle /\ PipIdle /\ ParIdle /\ ZipIdle /\ BatIdle
    /\ \E q \in UNION {[1..n -> FixAtoms] : n \in 1..MaxFixAtoms} :
        LET m == <<"$">> \o Concat(q) \o <<"$">>
        IN  f_arg \in {m, <<"a", " ">> \o m \o <<".">>}
    /\ f_outs = <<>>

\* _fix_equation called on a math span, then on what it returned
FixEquationCall ==
    /\ f_arg[1] = "$" /\ Len(f_outs) < MaxCalls
    /\ f_outs' = Append(f_outs, fix_equation(LastValue))
    /\ UNCHANGED <<f_arg, tokVars, extVars, splVars, pipVars, parVars, zipVars, batVars>>

\* process called on a content, then on what it returned
ProcessCall ==
    /\ f_arg[1] # "$" /\ Len(f_outs) < MaxCalls
    /\ f_outs' = Append(f_outs, process(LastValue))
    /\ UNCHANGED <<f_arg, tokVars, extVars, splVars, pipVars, parVars, zipVars, batVars>>

NextFixEquation == FixEquationCall \/ ProcessCall

SpecFixEquation == InitFixEquation /\ [][NextFixEquation]_vars

\* C21: _fix_equation applied to its own result, and process applied to its
\* own result, change nothing.
C21_EquationFixIdempotent ==
    Len(f_outs) >= MaxCalls => f_outs[MaxCalls] = f_outs[MaxCalls - 1]

-----------------------------------------------------------------------------
(* _strip_triple_dollar and final_sanitize (cleanup.py) *)

\* the character at position i, "" where there is none
CharAt(s, i) == IF i >= 0 /\ i < Len(s) THEN At(s, i) ELSE ""

\* the end of the longest run of characters outside a set that begins at i
RECURSIVE RunEndNot(_, _, _)
RunEndNot(s, i, chars) ==
    IF i < Len(s) /\ At(s, i) \notin chars THEN RunEndNot(s, i + 1, chars) ELSE i

Dollars(n) == [k \in 1..n |-> "$"]

\* _P_MANY_DOLLARS at position i, replaced by $$
ManyDollarsMatch(s, i) ==
    LET e == RunEnd(s, i, {"$"})
    IN  IF e - i >= 5 THEN [end |-> e, repl |-> Dollars(2)] ELSE NoMatch

\* _P_FOUR_DOLLARS at position i, replaced by $$
FourDollarsMatch(s, i) ==
    IF CharAt(s, i - 1) # "$" /\ HasAt(s, i, Dollars(4)) /\ CharAt(s, i + 4) # "$"
    THEN [end |-> i + 4, repl |-> Dollars(2)]
    ELSE NoMatch

\* _P_TRIPLE_DOLLAR_A at position i, replaced by its group 1
TripleDollarAMatch(s, i) ==
    LET a == RunEndNot(s, i + 1, {"$", "\n"})
        b == RunEndNot(s, a + 2, {"$", "\n"})
    IN  IF /\ CharAt(s, i) = "$" /\ a > i + 1
           /\ HasAt(s, a, Dollars(2)) /\ b > a + 2
           /\ HasAt(s, b, Dollars(3)) /\ CharAt(s, b + 3) # "$"
        THEN [end |-> b + 3, repl |-> Slice(s, i, a + 1)]
        ELSE NoMatch

\* _P_TRIPLE_DOLLAR_B at position i, replaced by nothing
TripleDollarBMatch(s, i) ==
    IF /\ CharAt(s, i) = "$" /\ CharAt(s, i - 1) # "$"
       /\ HasAt(s, i + 1, Dollars(2)) /\ CharAt(s, i + 3) # "$"
    THEN [end |-> i + 1, repl |-> <<>>]
    ELSE NoMatch

\* $$WORD$$ and the tail after it, from position p to the end of the line:
\* where the word ends, where the tail ends, where the match ends
WordLabelTail(s, p) ==
    LET w == RunEnd(s, p + 2, LetterChars)
        t == RunEndNot(s, w + 3, {"$", "\n"})
        e == IF CharAt(s, t) = "$" THEN t + 1 ELSE t
    IN  IF /\ HasAt(s, p, Dollars(2)) /\ w > p + 2
           /\ HasAt(s, w, Dollars(2) \o <<"\\">>) /\ t > w + 3
           /\ (e = Len(s) \/ CharAt(s, e) = "\n")
        THEN [w |-> w, t |-> t, end |-> e]
        ELSE [w |-> -1, t |-> -1, end |-> -1]

\* _P_WORD_LABEL_INLINE at position i, with its replacement
WordLabelMatch(s, i) ==
    LET eol == RunEndNot(s, i, {"\n"})
        ps  == {p \in (i + 1)..eol : WordLabelTail(s, p).end # -1}
    IN  IF (i = 0 \/ CharAt(s, i - 1) = "\n") /\ ps # {}
        THEN LET p == MinOf(ps)
                 m == WordLabelTail(s, p)
             IN  [end |-> m.end,
                  repl |-> Slice(s, i, p) \o <<" ", "$">> \o Slice(s, m.w + 2, m.t)
                               \o <<"$">>]
        ELSE NoMatch

\* _P_DOUBLE_SUBSCRIPT at position i, with the empty group put in
DoubleSubscriptMatch(s, i) ==
    LET c == FirstAt(s, i + 3, "}")
    IN  IF /\ HasAt(s, i, <<"}", "_", "{">>) /\ c # -1
           /\ HasAt(s, c + 1, <<"}", "_", "{">>)
        THEN [end |-> c + 4,
              repl |-> Slice(s, i, c + 1) \o <<"}", "{", "}", "_", "{">>]
        ELSE NoMatch

UnderlineClose ==
    <<"]", "{", ".", "u", "n", "d", "e", "r", "l", "i", "n", "e", "}">>

\* _P_UNDERLINE_SPAN at position i, replaced by its group 1
UnderlineMatch(s, i) ==
    LET c == FirstAt(s, i + 1, "]")
    IN  IF CharAt(s, i) = "[" /\ c # -1 /\ HasAt(s, c, UnderlineClose)
        THEN [end |-> c + Len(UnderlineClose), repl |-> Slice(s, i + 1, c)]
        ELSE NoMatch

\* the while loop of _fix_alt from position i
RECURSIVE AltSpans(_, _)
AltSpans(alt, i) ==
    IF i >= Len(alt) THEN <<>>
    ELSE IF At(alt, i) = "$" /\ CharAt(alt, i - 1) # "\\"
         THEN LET j == FirstAt(alt, i + 1, "$")
              IN  IF j = -1 THEN <<>>
                  ELSE LET span == Slice(alt, i + 1, j)
                       IN  (IF CountOf(span, "{") = CountOf(span, "}")
                            THEN <<"$">> \o span \o <<"$">> ELSE <<>>)
                               \o AltSpans(alt, j + 1)
         ELSE <<At(alt, i)>> \o AltSpans(alt, i + 1)

\* _fix_alt on the alt text
FixAlt(alt) ==
    LET a1 == StrReplace(alt, <<"\\", "[">>, <<"$">>)
        a2 == StrReplace(a1, <<"\\", "]">>, <<"$">>)
        a3 == StrReplace(a2, <<"\\", "(">>, <<"$">>)
        a4 == StrReplace(a3, <<"\\", ")">>, <<"$">>)
        a5 == StrReplace(a4, Dollars(2), <<"$">>)
    IN  AltSpans(a5, 0)

\* _P_IMAGE_LINE at position i, with _fix_alt
ImageLineMatch(s, i) ==
    LET c == FirstAt(s, i + 2, "]")
        d == FirstAt(s, c + 2, ")")
    IN  IF /\ HasAt(s, i, <<"!", "[">>) /\ c # -1
           /\ HasAt(s, c, <<"]", "(">>) /\ d > c + 2
        THEN [end |-> d + 1,
              repl |-> <<"!", "[">> \o FixAlt(Slice(s, i + 2, c)) \o <<"]", "(">>
                           \o Slice(s, c + 2, d) \o <<")">>]
        ELSE NoMatch

SuperStops == {"^", "\n", "{", "}"}

\* _P_MATH_THEN_SUPER at position i, merged into one span
MathThenSuperMatch(s, i) ==
    LET a == RunEndNot(s, i + 1, {"$"})
        b == RunEndNot(s, a + 2, SuperStops)
    IN  IF /\ CharAt(s, i) = "$" /\ a > i + 1
           /\ HasAt(s, a, <<"$", "^">>) /\ b > a + 2 /\ CharAt(s, b) = "^"
        THEN [end |-> b + 1,
              repl |-> <<"$">> \o Slice(s, i + 1, a) \o <<"^", "{">>
                           \o Slice(s, a + 2, b) \o <<"}", "$">>]
        ELSE NoMatch

UpperSeq == <<"A", "B", "C", "D", "E", "F", "G", "H", "I", "J", "K", "L", "M",
              "N", "O", "P", "Q", "R", "S", "T", "U", "V", "W", "X", "Y", "Z">>

LowerSeq == <<"a", "b", "c", "d", "e", "f", "g", "h", "i", "j", "k", "l", "m",
              "n", "o", "p", "q", "r", "s", "t", "u", "v", "w", "x", "y", "z">>

\* s.lower()
Lower(s) ==
    [k \in DOMAIN s |->
        IF s[k] \in UpperChars
        THEN LowerSeq[CHOOSE n \in DOMAIN UpperSeq : UpperSeq[n] = s[k]]
        ELSE s[k]]

\* _P_WORD_TEXT_LABEL at position i, with its replacement
WordTextLabelMatch(s, i) ==
    LET a == RunEnd(s, i, LetterChars)
        b == RunEnd(s, a + 1, LetterChars)
    IN  IF /\ a >= i + 2 /\ CharAt(s, a) = "$"
           /\ b > a + 1 /\ CharAt(s, b) = "$"
        THEN [end |-> b + 1,
              repl |-> IF Lower(Slice(s, i, a)) = Lower(Slice(s, a + 1, b))
                       THEN Slice(s, i, a) ELSE Slice(s, i, b + 1)]
        ELSE NoMatch

\* _P_MATH_GLUED_AFTER at position i, with a space put in
MathGluedAfterMatch(s, i) ==
    LET a == RunEndNot(s, i + 2, {"$", "\n"})
    IN  IF /\ CharAt(s, i) = "$" /\ i + 1 < Len(s)
           /\ At(s, i + 1) \notin {" ", "$", "\n"}
           /\ CharAt(s, a) = "$" /\ CharAt(s, a + 1) \in LetterChars
        THEN [end |-> a + 2, repl |-> Slice(s, i, a + 1) \o <<" ", At(s, a + 1)>>]
        ELSE NoMatch

\* what _P_SPACE_AFTER_OPEN_DOLLAR takes for the end of math content
ClosingContext == LetterChars \cup DigitChars \cup {"}", ")", "]", "\\", "$"}

\* _P_SPACE_AFTER_OPEN_DOLLAR at position i, the space taken out
SpaceAfterOpenMatch(s, i) ==
    IF /\ HasAt(s, i, <<"$", " ">>) /\ CharAt(s, i - 1) \notin ClosingContext
       /\ CharAt(s, i + 2) \in LetterChars \cup {"\\"}
    THEN [end |-> i + 3, repl |-> <<"$", At(s, i + 2)>>]
    ELSE NoMatch

\* _P_BARE_CMD_SUPER at position i, made a math span
BareCmdSuperMatch(s, i) ==
    LET a == RunEnd(s, i + 1, LetterChars)
        b == RunEndNot(s, a + 1, SuperStops)
    IN  IF /\ CharAt(s, i) = "\\" /\ CharAt(s, i - 1) # "$" /\ a > i + 1
           /\ CharAt(s, a) = "^" /\ b > a + 1 /\ b <= a + 21
           /\ CharAt(s, b) = "^" /\ CharAt(s, b + 1) # "$"
        THEN [end |-> b + 1,
              repl |-> <<"$">> \o Slice(s, i, a) \o <<"^", "{">>
                           \o Slice(s, a + 1, b) \o <<"}", "$">>]
        ELSE NoMatch

CleanupMatch(k, s, i) ==
    CASE k = "many" -> ManyDollarsMatch(s, i)
      [] k = "four" -> FourDollarsMatch(s, i)
      [] k = "A" -> TripleDollarAMatch(s, i)
      [] k = "B" -> TripleDollarBMatch(s, i)
      [] k = "D" -> WordLabelMatch(s, i)
      [] k = "E" -> DoubleSubscriptMatch(s, i)
      [] k = "F" -> UnderlineMatch(s, i)
      [] k = "G" -> ImageLineMatch(s, i)
      [] k = "H" -> MathThenSuperMatch(s, i)
      [] k = "J" -> WordTextLabelMatch(s, i)
      [] k = "I" -> MathGluedAfterMatch(s, i)
      [] k = "K" -> SpaceAfterOpenMatch(s, i)
      [] k = "bare" -> BareCmdSuperMatch(s, i)

\* pattern.sub(replacement, s) from position i on
RECURSIVE CleanupSub(_, _, _)
CleanupSub(k, s, i) ==
    IF i >= Len(s) THEN <<>>
    ELSE LET m == CleanupMatch(k, s, i)
         IN  IF m.end # -1 THEN m.repl \o CleanupSub(k, s, m.end)
             ELSE <<At(s, i)>> \o CleanupSub(k, s, i + 1)

\* the substitutions of a list, one after the other
RECURSIVE SubAll(_, _)
SubAll(ks, s) ==
    IF ks = <<>> THEN s ELSE SubAll(Tail(ks), CleanupSub(ks[1], s, 0))

strip_triple_dollar(c) ==
    SubAll(<<"many", "four", "A", "B", "D", "E", "F", "G", "H", "J", "I", "K">>, c)

final_sanitize(c) == SubAll(<<"E", "F", "G", "H", "bare", "K">>, c)

\* _strip_triple_dollar on the text of the cleanup pass
StripTripleDollarCall ==
    /\ f_outs = <<>>
    /\ f_outs' = <<strip_triple_dollar(f_arg)>>
    /\ UNCHANGED <<f_arg, tokVars, extVars, splVars, pipVars, parVars, zipVars, batVars>>

\* final_sanitize on what the cleanup pass left
FinalSanitizeCall ==
    /\ Len(f_outs) = 1
    /\ f_outs' = Append(f_outs, final_sanitize(f_outs[1]))
    /\ UNCHANGED <<f_arg, tokVars, extVars, splVars, pipVars, parVars, zipVars, batVars>>

NextCleanup == StripTripleDollarCall \/ FinalSanitizeCall

\* pieces of nested subscripted groups
SubscriptAtoms ==
    { <<"{">>, <<"X">>, <<"}">>, <<"}", "_", "{", "1", "}">>, <<"_", "{", "j", "}">> }

MaxSubscriptAtoms == 4

InitDoubleSubscript ==
    /\ TokIdle /\ ExtIdle /\ SplIdle /\ PipIdle /\ ParIdle /\ ZipIdle /\ BatIdle
    /\ f_arg \in {Concat(q) : q \in UNION {[1..n -> SubscriptAtoms] : n \in 0..MaxSubscriptAtoms}}
    /\ f_outs = <<>>

SpecDoubleSubscript == InitDoubleSubscript /\ [][NextCleanup]_vars

\* the shape }_{A}}_{ begins at position i
DoubleSubscriptAt(s, i) ==
    /\ HasAt(s, i, <<"}", "_", "{">>)
    /\ \E c \in (i + 3)..(Len(s) - 1) :
        /\ At(s, c) = "}" /\ \A k \in (i + 3)..(c - 1) : At(s, k) # "}"
        /\ HasAt(s, c + 1, <<"}", "_", "{">>)

HasDoubleSubscript(s) == \E i \in 0..(Len(s) - 1) : DoubleSubscriptAt(s, i)

\* C23: what _strip_triple_dollar returns, and what final_sanitize returns
\* after it, holds no double-subscript shape.
C23_NoDoubleSubscriptLeft ==
    \A k \in DOMAIN f_outs : ~HasDoubleSubscript(f_outs[k])

\* a single occurrence, and the second pass over a chain of two
LoneDoubleSubscriptFixed ==
    /\ (f_outs # <<>> /\ Cardinality({i \in 0..(Len(f_arg) - 1) : DoubleSubscriptAt(f_arg, i)}) = 1
            /\ Len(f_outs[1]) = Len(f_arg) + 2)
        => ~HasDoubleSubscript(f_outs[1])
    /\ Len(f_outs) = 2 => ~HasDoubleSubscript(f_outs[2])

\* inline spans, and what can stand between them
SpacingAtoms ==
    { <<"$", "a", "$">>, <<",">>, <<"1">>, <<")">>, <<" ">>, <<"x">> }

MaxSpacingAtoms == 4

InitInlineSpacing ==
    /\ TokIdle /\ ExtIdle /\ SplIdle /\ PipIdle /\ ParIdle /\ ZipIdle /\ BatIdle
    /\ f_arg \in {Concat(q) : q \in UNION {[1..n -> SpacingAtoms] : n \in 0..MaxSpacingAtoms}}
    /\ f_outs = <<>>

SpecInlineSpacing == InitInlineSpacing /\ [][NextCleanup]_vars

DollarsUpTo(s, i) == Cardinality({k \in 0..i : At(s, k) = "$"})

\* the delimiters of a text whose spans are $...$: the odd ones open
Opening_(s, i) == At(s, i) = "$" /\ DollarsUpTo(s, i) % 2 = 1

Closing_(s, i) == At(s, i) = "$" /\ DollarsUpTo(s, i) % 2 = 0

Positions(s) == 0..(Len(s) - 1)

\* every inline span is $...$ on one line, with content, and no two
\* delimiters stand side by side
WellFormedInline(s) ==
    /\ CountOf(s, "$") % 2 = 0
    /\ CountOf(s, "\n") = 0
    /\ \A i \in Positions(s) : At(s, i) = "$" => CharAt(s, i + 1) # "$"
    /\ \A i \in Positions(s) : Opening_(s, i) => CharAt(s, i + 1) # " "

\* C24: for a text of well-formed inline spans, in what _strip_triple_dollar
\* returns no closing delimiter is directly followed by a letter and no
\* opening delimiter is followed by a space.
C24_InlineSpacing ==
    (f_outs # <<>> /\ WellFormedInline(f_arg)) =>
        LET o == f_outs[1]
        IN  /\ \A i \in Positions(o) : Closing_(o, i) => CharAt(o, i + 1) \notin LetterChars
            /\ \A i \in Positions(o) : Opening_(o, i) => CharAt(o, i + 1) # " "

\* the same for a text with a single span, which the code keeps
SingleSpanSpaced ==
    (f_outs # <<>> /\ WellFormedInline(f_arg) /\ CountOf(f_arg, "$") = 2) =>
        LET o == f_outs[1]
        IN  /\ \A i \in Positions(o) : Closing_(o, i) => CharAt(o, i + 1) \notin LetterChars
            /\ \A i \in Positions(o) : Opening_(o, i) => CharAt(o, i + 1) # " "

-----------------------------------------------------------------------------
(* fix_delimiters (equations.py) *)

\* open(.*?)close with DOTALL tried at position i: where the match ends
SpanEnd(s, i, op, cl) ==
    LET js == {j \in (i + Len(op))..(Len(s) - Len(cl)) : HasAt(s, j, cl)}
    IN  IF HasAt(s, i, op) /\ js # {} THEN MinOf(js) + Len(cl) ELSE -1

\* len(re.findall(open(.*?)close, s, re.DOTALL)) from position i on
RECURSIVE CountSpans(_, _, _, _)
CountSpans(s, i, op, cl) ==
    IF i >= Len(s) THEN 0
    ELSE LET e == SpanEnd(s, i, op, cl)
         IN  IF e # -1 THEN 1 + CountSpans(s, e, op, cl)
             ELSE CountSpans(s, i + 1, op, cl)

\* re.sub(open(.*?)close, nop \1 ncl, s, flags=re.DOTALL) from position i on
RECURSIVE SubSpans(_, _, _, _, _, _)
SubSpans(s, i, op, cl, nop, ncl) ==
    IF i >= Len(s) THEN <<>>
    ELSE LET e == SpanEnd(s, i, op, cl)
         IN  IF e # -1
             THEN nop \o Slice(s, i + Len(op), e - Len(cl)) \o ncl
                      \o SubSpans(s, e, op, cl, nop, ncl)
             ELSE <<At(s, i)>> \o SubSpans(s, i + 1, op, cl, nop, ncl)

BadEscape == <<"bad escape">>

\* the escapes of a replacement template that stand for a control character
ControlEscapes ==
    [c \in {"a", "b", "f", "n", "r", "t", "v"} |->
        CASE c = "a" -> "<BEL>" [] c = "b" -> "<BS>" [] c = "f" -> "\f"
          [] c = "n" -> "\n" [] c = "r" -> "\r" [] c = "t" -> "\t" [] c = "v" -> "<VT>"]

\* what re.sub makes of a delimiter standing in its replacement template: a
\* backslash with a letter is an escape, a bad one unless it names a control
\* character; with another backslash it is one backslash; with any other
\* character but a digit it stays (delimiters with \g or a backslash and a
\* digit, which are group references, are not among the ones configured here)
RECURSIVE TemplateOf(_)
TemplateOf(d) ==
    IF d = <<>> THEN <<>>
    ELSE IF d[1] = "\\" /\ Len(d) >= 2
         THEN LET rest == TemplateOf(SubSeq(d, 3, Len(d)))
              IN  IF d[2] \in DOMAIN ControlEscapes
                  THEN (IF rest = BadEscape THEN BadEscape
                        ELSE <<ControlEscapes[d[2]]>> \o rest)
                  ELSE IF d[2] \in LetterChars THEN BadEscape
                  ELSE IF rest = BadEscape THEN BadEscape
                  ELSE IF d[2] = "\\" THEN <<"\\">> \o rest
                  ELSE <<"\\", d[2]>> \o rest
         ELSE LET rest == TemplateOf(Tail(d))
              IN  IF rest = BadEscape THEN BadEscape ELSE <<d[1]>> \o rest

InlineOpen == <<"\\", "(">>
InlineClose == <<"\\", ")">>
DisplayOpen == <<"\\", "[">>
DisplayClose == <<"\\", "]">>

NotWritten ==
    [written |-> FALSE, out |-> <<>>, inline_original |-> 0, display_original |-> 0,
     inline_fixed |-> 0, display_fixed |-> 0]

\* fix_delimiters on a file holding c: whether it wrote the output file, what
\* it wrote, and the statistics returned
fix_delimiters(c, inline, display) ==
    LET t == [k \in 1..4 |-> TemplateOf((inline \o display)[k])]
    IN  IF \E k \in 1..4 : t[k] = BadEscape THEN NotWritten
        ELSE LET c1 == SubSpans(c, 0, InlineOpen, InlineClose, t[1], t[2])
                 c2 == SubSpans(c1, 0, DisplayOpen, DisplayClose, t[3], t[4])
             IN  [written |-> TRUE, out |-> c2,
                  inline_original |-> CountSpans(c, 0, InlineOpen, InlineClose),
                  display_original |-> CountSpans(c, 0, DisplayOpen, DisplayClose),
                  inline_fixed |-> CountSpans(c2, 0, inline[1], inline[2]),
                  display_fixed |-> CountSpans(c2, 0, display[1], display[2])]

\* the content of the file the k-th call reads
FileBefore(k) == IF k = 1 THEN f_arg.content ELSE f_outs[k - 1].out

\* fix_delimiters(path, path, inline, display) on the file as it stands
FixDelimitersCall ==
    /\ Len(f_outs) < MaxCalls
    /\ f_outs # <<>> => f_outs[Len(f_outs)].written
    /\ f_outs' = Append(f_outs,
                    fix_delimiters(FileBefore(Len(f_outs) + 1), f_arg.inline, f_arg.display))
    /\ UNCHANGED <<f_arg, tokVars, extVars, splVars, pipVars, parVars, zipVars, batVars>>

\* the delimiter pairs configured: the defaults, the converter's own, and
\* those of an equation environment
DelimiterConfigs ==
    { [inline |-> <<Dollars(1), Dollars(1)>>, display |-> <<Dollars(2), Dollars(2)>>],
      [inline |-> <<InlineOpen, InlineClose>>, display |-> <<DisplayOpen, DisplayClose>>],
      [inline |-> <<InlineOpen, InlineClose>>,
       display |-> << <<"\\", "b", "e", "g", "i", "n", "{", "e", "q", "u", "a", "t", "i", "o", "n", "}">>,
                      <<"\\", "e", "n", "d", "{", "e", "q", "u", "a", "t", "i", "o", "n", "}">> >>] }

\* whole spans, and delimiters standing alone
DelimiterAtoms ==
    { InlineOpen \o <<"x">> \o InlineClose, DisplayOpen \o <<"\n", "y", "\n">> \o DisplayClose,
      InlineOpen, InlineClose, DisplayOpen, DisplayClose, <<" ">> }

MaxDelimiterAtoms == 4

InitFixDelimiters ==
    /\ TokIdle /\ ExtIdle /\ SplIdle /\ PipIdle /\ ParIdle /\ ZipIdle /\ BatIdle
    /\ \E cfg \in DelimiterConfigs :
        \E q \in UNION {[1..n -> DelimiterAtoms] : n \in 0..MaxDelimiterAtoms} :
            f_arg = [content |-> Concat(q), inline |-> cfg.inline, display |-> cfg.display]
    /\ f_outs = <<>>

SpecFixDelimiters == InitFixDelimiters /\ [][FixDelimitersCall]_vars

\* every \(X\) made the inline pair around X, then every \[X\] the display pair
Rewritten(c, inline, display) ==
    SubSpans(SubSpans(c, 0, InlineOpen, InlineClose, inline[1], inline[2]),
             0, DisplayOpen, DisplayClose, display[1], display[2])

HoldsNone(c, ds) == \A k \in DOMAIN ds : Occurrences(c, ds[k]) = {}

\* C26: every call of fix_delimiters writes the file with every \(X\) and
\* \[X\] rewritten as the configured pair around X, returns as
\* inline_original and display_original the numbers of such spans read, and,
\* for a file that held none of the configured delimiters before, returns
\* the same numbers as inline_fixed and display_fixed.
C26_DelimitersRewrittenAndCounted ==
    \A k \in DOMAIN f_outs :
        LET c == FileBefore(k)
            r == f_outs[k]
        IN  /\ r.written
            /\ r.out = Rewritten(c, f_arg.inline, f_arg.display)
            /\ r.inline_original = CountSpans(c, 0, InlineOpen, InlineClose)
            /\ r.display_original = CountSpans(c, 0, DisplayOpen, DisplayClose)
            /\ HoldsNone(c, f_arg.inline \o f_arg.display) =>
                /\ r.inline_fixed = r.inline_original
                /\ r.display_fixed = r.display_original

\* the same without the display spans and with the default delimiters, which
\* the code keeps
InlineOnlyCounted ==
    \A k \in DOMAIN f_outs :
        LET c == FileBefore(k)
            r == f_outs[k]
        IN  (/\ f_arg.inline = <<Dollars(1), Dollars(1)>>
             /\ Occurrences(c, DisplayOpen) = {}
             /\ HoldsNone(c, f_arg.inline \o f_arg.display)) =>
                /\ r.written
                /\ r.out = Rewritten(c, f_arg.inline, f_arg.display)
                /\ r.inline_fixed = r.inline_original
                /\ r.inline_original = CountSpans(c, 0, InlineOpen, InlineClose)

====
